---- MODULE Spec2Model ----
(***************************************************************************)
(* Verification model of the TradePulse backend (backend/candlestickData.py *)
(* and backend/models.py): the persistence of closed trades and the trade   *)
(* monitor that reconciles polled position snapshots and deal history.      *)
(*                                                                          *)
(* Units.  Prices are integers in price points, volumes in lots, profits in *)
(* account-currency units; with these units the float arithmetic and the    *)
(* round(.., 2) / round(.., 5) calls of the formatters are exact.           *)
(* Time is counted in whole minutes: a deal carries its age in minutes, and *)
(* a lookback window of W minutes returns the deals whose age is at most W. *)
(***************************************************************************)
EXTENDS Integers, Sequences, FiniteSets, TLC

VARIABLES
    users,                 \* number of rows of the users table
    trade_records,         \* rows of table trade_records, in insertion order
    trade_configurations,  \* rows of table trade_configurations
    calls,                 \* per caller: the store_trade_record call in flight
    ncalls,                \* store_trade_record calls started so far
    positions,             \* terminal: open positions, ticket -> position
    deals,                 \* terminal: deal history, oldest first
    opened,                \* terminal: tickets ever opened
    last_known_positions,  \* monitor baseline, ticket -> position as last polled
    last_known_deals,      \* monitor: processed deal tickets
    emitted,               \* per ticket: trade_update events emitted so far
    ghost,                 \* history of the monitor run (not program state)
    client_timeframes,     \* sid -> timeframe the client subscribed to
    last_processed_m1_candle_time,  \* start time of the newest 1m candle seen
    last_sent_candle_by_timeframe,  \* price loop: timeframe -> candle last sent
    last_client_emission,  \* price loop: sid -> age of its throttle stamp
    last_emissions,        \* send_timeframe_update: <<sid, tf>> -> age of stamp
    feed,                  \* history of the price loop (not program state)
    loop_pc,               \* per background loop: where its while loop stands
    attribution,           \* one call of _determine_bot_attribution
    bot_managers,          \* registry: bot_id -> its TradingBotManager object
    bot_objects,           \* the TradingBotManager objects made so far
    bot_calls,             \* bot handlers in flight and their history
    bot_trades             \* module bot_manager: its deals and lifetime_stats

priceVars == << client_timeframes, last_processed_m1_candle_time,
               last_sent_candle_by_timeframe, last_client_emission,
               last_emissions, feed >>
botVars == << bot_managers, bot_objects, bot_calls, bot_trades >>
serverVars == << priceVars, loop_pc, attribution, botVars >>
storeVars == << users, trade_records, trade_configurations, calls, ncalls >>

vars == << users, trade_records, trade_configurations, calls, ncalls,
           positions, deals, opened, last_known_positions, last_known_deals,
           emitted, ghost, serverVars >>

terminalVars == << positions, deals, opened >>
monitorVars == << last_known_positions, last_known_deals, emitted, ghost >>

(***************************************************************************)
(* Bounds of the model.                                                     *)
(***************************************************************************)
MaxTickets == 2     \* position tickets 1..MaxTickets
MaxCallers == 2     \* concurrent invocations of store_trade_record
MaxCalls   == 3     \* store_trade_record calls started in one behaviour
MaxFaults  == 1     \* cycles in which the source fails to answer
MaxAge     == 4     \* a behaviour spans MaxAge minutes: deal ages 0..MaxAge
TickMinutes == 4    \* minutes that pass in one step of the clock
MaxOld     == 1     \* tickets 1..MaxOld may be open when the server starts
MaxMove    == 1     \* current prices BasePrice .. BasePrice + MaxMove
BasePrice  == 10    \* the price every position is opened at

Tickets  == 1..MaxTickets
Callers  == 1..MaxCallers

\* Python's None in a string-valued field; a NULL integer id is written 0
\* (ids start at 1, and `or` treats None and 0 alike); a NULL float column
\* is the empty tuple << >> and a stored float p is << p >>.
None == "None"

\* Python's `a or b` on string-valued fields: None and "" are falsy.
OrStr(a, b) == IF a # None /\ a # "" THEN a ELSE b

\* Python's `a or b` on integer ids: None and 0 are falsy.
OrInt(a, b) == IF a # 0 THEN a ELSE b

Abs(x) == IF x < 0 THEN 0 - x ELSE x

(***************************************************************************)
(* The price feed: bounds, program constants and the state before the first *)
(* client connects.  Clock readings are in milliseconds.  A throttle map    *)
(* holds, for each key, the age of its stamp (time.time() minus the stamp), *)
(* saturated at Horizon, the longest interval any stamp is compared with; a *)
(* missing key reads as stamp 0, which is older than every interval.        *)
(***************************************************************************)
MaxClients == 1     \* socket ids 1..MaxClients
MaxBarTime == 1     \* 1m bars start at minute 0..MaxBarTime
MaxShort   == 2     \* iterations that follow the previous one within a second
ShortGap   == 50    \* ms between two clock readings of the loop, short
LongGap    == 210   \* ms between two clock readings of the loop, longer
MaxCommentLen == 5  \* atoms of an order comment
OtherMagic == 7     \* a magic number outside the reserved range

Clients == 1..MaxClients
Levels  == BasePrice .. BasePrice + MaxMove

\* candlestickData.py:637 min_client_emission_interval = 0.25 (seconds).
MinClientEmissionInterval == 250
\* candlestickData.py:813 connection_status at most every 5.0 seconds.
StatusInterval == 5000
\* candlestickData.py:3296 send_timeframe_update at most every 1.0 second.
TimeframeUpdateInterval == 1000
\* candlestickData.py:841 socketio.sleep(1) after an error in the price loop.
ErrorSleep == 1000
\* candlestickData.py:1454, 1462 the magic numbers reserved for TradePulse.
MagicLow  == 234000
MagicHigh == 300000

Horizon == StatusInterval

\* What the history of the price loop records: the number of 1m bars polled
\* and of 1m candles recorded (both counted up to 1), per period start the
\* 1m candle recorded last, the connection state of every socket id, and
\* the outcome of the latest iteration.
\* An absent bar or candle is << >>, a present one << c >>.
NoFeed ==
    [ sids |-> [ sid \in Clients |-> "new" ],  \* "new", "connected", "gone"
      swept |-> {},        \* gone sids after which an iteration completed
      polls |-> 0, base_emits |-> 0,
      bar |-> << >>,       \* the 1m bar the latest iteration polled
      by_start |-> << >>,
      recorded |-> FALSE,  \* the latest iteration recorded a 1m candle
      polled |-> {},       \* derived timeframes the latest iteration polled
      opps |-> {},         \* << sid, tf >>: a candle of tf was due to sid
      sends |-> {},        \* << sid, tf >>: price_update sent by the loop
      quiet |-> {},        \* sids with no price_update of the loop for 250 ms
      quiet_tf |-> {},     \* << sid, tf >> of opps: no price_update of tf and
                           \* no connection_status of the loop for 250 ms
      sent_at |-> << >>,   \* << sid, tf >> -> age of the loop's price_update
      status_at |-> << >>, \* sid -> age of the loop's connection_status
      short |-> 0,         \* iterations so far that followed within a second
      tick |-> FALSE ]     \* flips with every iteration of the price loop

\* No call of _determine_bot_attribution yet.  Strings are sequences of
\* atoms; the result is << >> for None and << dict >> for a dict.
NoAttribution == [ magic_number |-> 0, comment |-> << >>, bot_managers |-> << >>,
                   called |-> FALSE, result |-> << >> ]

\* Where the two background loops stand: "cycle" at the top of `while True`,
\* "except" in the except clause.  tick flips with every iteration of the
\* trade monitor; caught and resumed tell which loops caught an exception
\* and which completed an iteration after that (not program state).
\* iter is the iterator of `for sid in client_timeframes.keys()` (line 808)
\* when the price loop is followed statement by statement (price =
\* "status"): used is len(client_timeframes) when the iterator was made,
\* todo the keys it has not yielded, yielded whether the loop stands in a
\* socketio.emit.
NoIter == [ used |-> 0, todo |-> << >>, yielded |-> FALSE ]

\* Lines 514-515 and 844: no task handle, thread_lock free (holder 0); no
\* handle_connect has reached its `with thread_lock`, no task was started.
NoTasks ==
    [ thread |-> None, trade_monitor_thread |-> None, thread_lock |-> 0,
      connects |-> << >>,
      started |-> [ thread |-> 0, trade_monitor_thread |-> 0 ] ]

LoopsStart ==
    [ price |-> "cycle", monitor |-> "cycle", tick |-> FALSE,
      caught |-> {}, resumed |-> {}, iter |-> NoIter, tasks |-> NoTasks ]

(***************************************************************************)
(* The trading bots: TradingBotManager objects (bot_manager.py 14-153) and  *)
(* the registry bot_managers (candlestickData.py 34).                       *)
(***************************************************************************)
MaxManagers   == 3   \* TradingBotManager objects made in one behaviour
MaxBotCallers == 2   \* concurrent bot_start / bot_stop handlers
MaxSeconds    == 1   \* the clock reads StartSecond .. StartSecond + MaxSeconds
StartSecond   == 1700000000   \* int(time.time()) when the server starts

BotCallers == 1..MaxBotCallers

\* The bot ids the clients of the model send.
BotIds == {"bot_523", "bot_771"}

\* bot_manager.py:866 and 869.
Int31Max  == 2147483647
MagicBase == 234000
MagicSpan == 66000

\* int(hashlib.md5(f"{bot_id}_{second}".encode()).hexdigest()[:8], 16) as
\* << high 16 bits, low 16 bits >>: the values MD5 has for the strings of
\* the model (9ac5c083, d3597e9e, f72e1023, 3ed8b4c2, and for bot_id None
\* dff334b9, e962a752).
Md5Prefix(bot_id, second) ==
    CASE bot_id = "bot_523" /\ second = StartSecond -> << 39621, 49283 >>
      [] bot_id = "bot_523" /\ second # StartSecond -> << 54105, 32414 >>
      [] bot_id = "bot_771" /\ second = StartSecond -> << 63278, 4131 >>
      [] bot_id = "bot_771" /\ second # StartSecond -> << 16088, 46274 >>
      [] bot_id = None /\ second = StartSecond -> << 57331, 13497 >>
      [] OTHER -> << 59746, 42834 >>

\* (hi * 2^16 + lo) % 2147483647 for a value of 32 bits, in 32-bit
\* arithmetic: from 2^31 - 1 on, 2^31 - 1 is taken off once or twice.
Mod31(hi, lo) ==
    IF hi < 32768
    THEN (hi * 65536 + lo) % Int31Max
    ELSE LET w == (hi - 32768) * 65536 + lo   \* the value less 2^31
         IN  IF w = Int31Max THEN 1 ELSE (w + 1) % Int31Max

\* Line 869 left out: the number of line 866 is returned.
MagicOfLine866(prefix) == Mod31(prefix[1], prefix[2])

\* Lines 866-869 of _generate_unique_magic_number, from the 32 bits of the
\* digest.
MagicOf(prefix) == MagicBase + (Mod31(prefix[1], prefix[2]) % MagicSpan)

\* _generate_unique_magic_number (857-873).
_generate_unique_magic_number(bot_id, second) ==
    MagicOf(Md5Prefix(bot_id, second))

\* TradingBotManager.__init__ (14-61).  threads are the _bot_loop threads
\* the object has started: whether each is alive, and in which run of the
\* bot (the number of successful start_bot calls, `starts`) it last
\* executed an iteration; bot_thread is the index of self.bot_thread.
NewManager ==
    [ is_running |-> FALSE, bot_id |-> None, unique_magic_number |-> << >>,
      bot_thread |-> 0, threads |-> << >>, starts |-> 0 ]

\* bot_manager.py 27-36: lifetime_stats of a new TradingBotManager (the
\* drawdown and the daily figures, which follow the same calls, left out).
NewLifetimeStats ==
    [ total_completed_trades |-> 0,
      total_winning_trades |-> 0,
      total_losing_trades |-> 0,
      lifetime_realized_profit |-> 0,
      completed_trade_history |-> << >> ]

\* No _update_performance under way.
IdleRun == [ active |-> FALSE, fetched |-> 0, next |-> 0 ]

\* No handler of a bot event in flight.
IdleBotCall == [ pc |-> "idle", bot_id |-> None, obj |-> 0 ]

\* candlestickData.py 34 and 49: an empty registry and the module's own
\* bot_manager, object 1; the clock stands at StartSecond.
InitBots ==
    /\ bot_managers = << >>
    /\ bot_objects = << NewManager >>
    /\ bot_calls = [ calls |-> [ c \in BotCallers |-> IdleBotCall ],
                     second |-> StartSecond ]
    /\ bot_trades = [ history |-> << >>,
                      lifetime_stats |-> NewLifetimeStats,
                      tracked |-> << >>,
                      run |-> IdleRun ]

\* Lines 62, 64, 635, 640: no client, no candle seen or sent, empty throttle
\* maps; both background loops are about to run a cycle.
InitServer ==
    /\ client_timeframes = << >>
    /\ last_processed_m1_candle_time = 0
    /\ last_sent_candle_by_timeframe = << >>
    /\ last_client_emission = << >>
    /\ last_emissions = << >>
    /\ feed = NoFeed
    /\ loop_pc = LoopsStart
    /\ attribution = NoAttribution
    /\ InitBots

(***************************************************************************)
(* Persistence: models.py and store_trade_record.                           *)
(***************************************************************************)

\* TradeRecord.ticket is declared nullable=False only: no unique constraint.
TradeRecordTicketUnique == FALSE

\* TradeConfiguration.ticket without its unique constraint.
TradeConfigurationTicketNotUnique == FALSE

\* TradeConfiguration.ticket is declared unique=True.
TradeConfigurationTicketUnique == TRUE

\* TradeRecord.query.filter_by(ticket=ticket).first()
ExistingRecord(recs, ticket) ==
    \E i \in 1..Len(recs) : recs[i].ticket = ticket

\* TradeRecord(...) built from the closed-trade dict.
NewTradeRecord(trade) ==
    [ ticket         |-> trade.ticket,
      type           |-> trade.type,
      exit_price     |-> trade.exit_price,
      profit_loss    |-> trade.profit,
      bot_id         |-> trade.bot_id ]

\* db.session.add(record); db.session.commit(): the commit fails when a
\* unique constraint on ticket would be violated, and the row is not stored.
InsertCommits(recs, ticket, unique) ==
    ~ (unique /\ ExistingRecord(recs, ticket))

InsertRecord(recs, trade) ==
    IF InsertCommits(recs, trade.ticket, TradeRecordTicketUnique)
    THEN Append(recs, NewTradeRecord(trade))
    ELSE recs

\* The row index of the configuration of a ticket, 0 when there is none:
\* TradeConfiguration.query.filter_by(ticket=ticket).first()
CfgIndex(cfgs, ticket) ==
    IF \E i \in 1..Len(cfgs) : cfgs[i].ticket = ticket
    THEN CHOOSE i \in 1..Len(cfgs) :
            /\ cfgs[i].ticket = ticket
            /\ \A j \in 1..Len(cfgs) : cfgs[j].ticket = ticket => i <= j
    ELSE 0

\* TradeConfiguration(ticket=ticket): every other column NULL.
\* NULL is 0 in user_id, None in the string and time columns and << >> in
\* the numeric columns, where << x >> is the stored number x.
\* max_risk_per_trade stands for the nineteen columns that only
\* store_trade_config_snapshot writes (lines 420-438).
EmptyCfg(ticket) ==
    [ ticket |-> ticket, user_id |-> 0, bot_id |-> None, bot_name |-> None,
      strategy |-> None, magic_number |-> << >>, entry_time |-> None,
      profit_loss |-> << >>, change_percent |-> << >>,
      max_risk_per_trade |-> << >> ]

\* Line 363: (cfg.magic_number or int(trade.get('magic'))) when the dict has
\* a magic, else cfg.magic_number; `or` passes over None and over 0 alike.
OrMagic(magic_number, magic) ==
    IF magic_number # << >> /\ magic_number[1] # 0 THEN magic_number
    ELSE << magic >>

\* Lines 357-382: fill identifiers that are still unset, cache the outcome
\* (every closed-trade dict the formatters build carries a numeric profit).
FillCfg(cfg, trade, uid) ==
    [ cfg EXCEPT
        !.user_id        = OrInt(cfg.user_id, uid),
        !.bot_id         = OrStr(cfg.bot_id, trade.bot_id),
        !.bot_name       = OrStr(cfg.bot_name, trade.bot_name),
        \* the closed-trade dicts have no key 'strategy'
        !.strategy       = OrStr(cfg.strategy, None),
        !.magic_number   = OrMagic(cfg.magic_number, trade.magic),
        !.entry_time     = IF trade.time # None /\ cfg.entry_time = None
                           THEN trade.time ELSE cfg.entry_time,
        !.profit_loss    = << trade.profit >>,
        !.change_percent = << trade.change_percent >> ]

\* Lines 350-384 as one step, given the row index `found` that the lookup of
\* line 351 returned (0: none): update the row found, or insert a new one;
\* the insert is rolled back when the unique constraint on ticket rejects it.
UpsertCfg(cfgs, trade, uid, found) ==
    IF found # 0 /\ found <= Len(cfgs)
    THEN [ cfgs EXCEPT ![found] = FillCfg(cfgs[found], trade, uid) ]
    ELSE IF InsertCommits(cfgs, trade.ticket, TradeConfigurationTicketUnique)
         THEN Append(cfgs, FillCfg(EmptyCfg(trade.ticket), trade, uid))
         ELSE cfgs

\* Lines 305-320 outside a request context: the first user of the table, or
\* RuntimeError("No user exists ...") when there is none.
ResolveUid(nusers) == IF nusers > 0 THEN 1 ELSE 0

StoreRecordNoDedup(recs, trade) == InsertRecord(recs, trade)

\* Lines 322-348: deduplicate on ticket, then insert.
StoreRecord(recs, trade) ==
    IF ExistingRecord(recs, trade.ticket) THEN recs
    ELSE InsertRecord(recs, trade)

\* store_trade_record run without interruption: the new contents of
\* << trade_records, trade_configurations >>.  A call that raises (no user)
\* is caught by the function's except clause and stores nothing.
store_trade_record(nusers, recs, cfgs, trade) ==
    LET uid == ResolveUid(nusers) IN
    IF uid = 0 THEN << recs, cfgs >>
    ELSE LET recs1 == StoreRecord(recs, trade) IN
         << recs1, UpsertCfg(cfgs, trade, uid, CfgIndex(cfgs, trade.ticket)) >>

(***************************************************************************)
(* Closed-trade dicts.  `deal` is not a key of the dict: it records which   *)
(* deal ticket the dict was built from (0: none, an estimate).  `estimated` *)
(* is the value a consumer reads with data.get("estimated", False): only    *)
(* format_basic_closed_trade sets the key.                                  *)
(***************************************************************************)
NoTrade ==
    [ ticket |-> 0, type |-> "", entry_price |-> 0, exit_price |-> 0,
      profit |-> 0, estimated |-> FALSE, deal |-> 0, bot_id |-> None,
      bot_name |-> None, magic |-> 0, time |-> None, change_percent |-> 0 ]

\* The payloads handed to store_trade_record when it is driven directly.
Payloads ==
    [ ticket : Tickets, type : {"BUY"}, entry_price : {BasePrice},
      exit_price : {BasePrice},
      profit : {0 - 1, 2}, estimated : BOOLEAN, deal : {0},
      bot_id : {None, "bot_1"}, bot_name : {None}, magic : {0},
      time : {"opened"}, change_percent : {0} ]

\* ghost.started: a connected monitor cycle has run; ghost.seen: tickets that
\* appeared in a polled snapshot (and so entered the baseline);
\* ghost.faults: cycles so far in which the positions poll or the deal
\* fetches returned None;
\* ghost.poll_none: the last step was a cycle whose positions poll was None;
\* ghost.live: tickets opened while the monitor was past its first-run
\* initialization (its baseline was not empty).
\* ghost.added: when check_for_new_deals is driven directly, the deal tickets
\* 1..added have entered last_known_deals, in that order.
NoHistory ==
    [ started |-> FALSE, seen |-> {}, faults |-> 0, poll_none |-> FALSE,
      live |-> {}, added |-> 0 ]

\* The event dict of a bot's trade_executed notification, as far as
\* store_trade_config_snapshot reads it; config_snapshot is never empty
\* (on_bot_update drops events without one).
NoEvt ==
    [ ticket |-> 0, user_id |-> 0, bot_id |-> None, bot_name |-> None,
      strategy |-> None, magic_number |-> << >>, entry_time |-> None,
      config_snapshot |-> [ max_risk_per_trade |-> << >> ] ]

\* A caller that is in neither function.  `caught` tells that its last call
\* ended in the except clause of the function.
IdleCall ==
    [ pc |-> "idle", trade |-> NoTrade, uid |-> 0, found |-> 0,
      evt |-> NoEvt, caught |-> FALSE ]

\* A call whose exception leaves the function (what would happen without
\* the except clauses in lines 386 and 443).
NoStoreExceptClause == [ IdleCall EXCEPT !.pc = "propagated" ]

\* Lines 386-391 and 443-448: except Exception: log, db.session.rollback();
\* the function returns normally.
StoreExceptClause == [ IdleCall EXCEPT !.caught = TRUE ]

(***************************************************************************)
(* store_trade_record, one database round trip per step.                    *)
(***************************************************************************)

\* Lines 300-320: enter the function and resolve the user id.
Begin(c, trade) ==
    /\ calls[c].pc = "idle"
    /\ ncalls < MaxCalls
    /\ ncalls' = ncalls + 1
    /\ LET uid == ResolveUid(users) IN
       calls' = [ calls EXCEPT ![c] =
                    IF uid = 0 THEN StoreExceptClause
                    ELSE [ pc |-> "lookup", trade |-> trade, uid |-> uid,
                           found |-> 0, evt |-> NoEvt, caught |-> FALSE ] ]
    /\ UNCHANGED << serverVars, users, trade_records, trade_configurations,
                    terminalVars, monitorVars >>

\* Line 323: existing = TradeRecord.query.filter_by(ticket=ticket).first()
RecordLookup(c) ==
    /\ calls[c].pc = "lookup"
    /\ calls' = [ calls EXCEPT ![c].pc =
                    IF ExistingRecord(trade_records, calls[c].trade.ticket)
                    THEN "cfg_lookup" ELSE "insert" ]
    /\ UNCHANGED << serverVars, users, trade_records, trade_configurations, ncalls,
                    terminalVars, monitorVars >>

\* Lines 329-347: db.session.add(record); db.session.commit()
RecordInsert(c) ==
    /\ calls[c].pc = "insert"
    /\ trade_records' = InsertRecord(trade_records, calls[c].trade)
    /\ calls' = [ calls EXCEPT ![c].pc = "cfg_lookup" ]
    /\ UNCHANGED << serverVars, users, trade_configurations, ncalls,
                    terminalVars, monitorVars >>

\* Line 351: cfg = TradeConfiguration.query.filter_by(ticket=ticket).first()
CfgLookup(c) ==
    /\ calls[c].pc = "cfg_lookup"
    /\ calls' = [ calls EXCEPT
                    ![c].pc = "cfg_commit",
                    ![c].found = CfgIndex(trade_configurations,
                                          calls[c].trade.ticket) ]
    /\ UNCHANGED << serverVars, users, trade_records, trade_configurations, ncalls,
                    terminalVars, monitorVars >>

\* The commit of line 384 (or 441) raises: the call inserts a row for a
\* ticket that has one by now, and the unique constraint rejects it.
CommitRaises(cfgs, ticket, found) ==
    /\ ~ (found # 0 /\ found <= Len(cfgs))
    /\ ~ InsertCommits(cfgs, ticket, TradeConfigurationTicketUnique)

\* Lines 352-391: fill the row, commit; a failing commit is rolled back.
CfgCommit(c) ==
    /\ calls[c].pc = "cfg_commit"
    /\ trade_configurations' =
          UpsertCfg(trade_configurations, calls[c].trade, calls[c].uid,
                    calls[c].found)
    /\ calls' = [ calls EXCEPT ![c] =
                    IF CommitRaises(trade_configurations,
                                    calls[c].trade.ticket, calls[c].found)
                    THEN StoreExceptClause ELSE IdleCall ]
    /\ UNCHANGED << serverVars, users, trade_records, ncalls, terminalVars, monitorVars >>

\* A whole store_trade_record call that nothing interleaves with.
StoreTradeRecordCall(trade) ==
    /\ \A c \in Callers : calls[c].pc = "idle"
    /\ LET r == store_trade_record(users, trade_records,
                                   trade_configurations, trade) IN
       /\ trade_records' = r[1]
       /\ trade_configurations' = r[2]
    /\ UNCHANGED << serverVars, users, calls, ncalls, terminalVars, monitorVars >>

InitStore ==
    /\ users \in 0..1
    /\ trade_records = << >>
    /\ trade_configurations = << >>
    /\ calls = [ c \in Callers |-> IdleCall ]
    /\ ncalls = 0
    /\ positions = << >>
    /\ deals = << >>
    /\ opened = {}
    /\ last_known_positions = << >>
    /\ last_known_deals = {}
    /\ emitted = [ t \in Tickets |-> << >> ]
    /\ ghost = NoHistory
    /\ InitServer

\* Calls of store_trade_record one after the other (the trade monitor calls
\* it synchronously from its single task).
NextStoreSeq == \E trade \in Payloads : StoreTradeRecordCall(trade)

SpecStoreSeq == InitStore /\ [][NextStoreSeq]_vars

\* Invocations of store_trade_record by MaxCallers tasks against one
\* database, interleaved at the database round trips.
NextStore ==
    \E c \in Callers :
        \/ \E trade \in Payloads : Begin(c, trade)
        \/ RecordLookup(c)
        \/ RecordInsert(c)
        \/ CfgLookup(c)
        \/ CfgCommit(c)

SpecStore == InitStore /\ [][NextStore]_vars

\* Rows of trade_records that carry the ticket.
RecordsOf(ticket) ==
    { i \in 1..Len(trade_records) : trade_records[i].ticket = ticket }

\* C1: after any sequence of store_trade_record calls, trade_records holds
\* at most one row per ticket (a call for a stored ticket inserts nothing).
C1_AtMostOneRecordPerTicket ==
    \A t \in Tickets : Cardinality(RecordsOf(t)) <= 1

\* C1 witness: a ticket was stored and then stored again with another
\* outcome: the configuration row carries the later call's profit while
\* the single trade record keeps the first one.
C1_Witness ==
    \E t \in Tickets :
        /\ Cardinality(RecordsOf(t)) = 1
        /\ \E i \in RecordsOf(t) :
             LET k == CfgIndex(trade_configurations, t) IN
             /\ k # 0
             /\ trade_configurations[k].profit_loss
                  # << trade_records[i].profit_loss >>

EntryDealTicket(t) == 2 * t - 1
ExitDealTicket(t)  == 2 * t

PositionProfit(side, open, current) ==
    IF side = 0 THEN current - open ELSE open - current

NewPosition(t, side) ==
    [ ticket |-> t, type |-> side, volume |-> 1, price_open |-> BasePrice,
      price_current |-> BasePrice, profit |-> 0 ]

EntryDeal(pos) ==
    [ ticket |-> EntryDealTicket(pos.ticket), position_id |-> pos.ticket,
      type |-> pos.type, price |-> pos.price_open, profit |-> 0,
      commission |-> 0 - 1, swap |-> 0, age |-> 0 ]

ExitDeal(pos) ==
    [ ticket |-> ExitDealTicket(pos.ticket), position_id |-> pos.ticket,
      type |-> 1 - pos.type, price |-> pos.price_current,
      profit |-> pos.profit, commission |-> 0 - 1, swap |-> 0, age |-> 0 ]

\* The function f without the key k (del f[k]).
Without(f, k) == [ x \in DOMAIN f \ {k} |-> f[x] ]

\* The function f with f[k] = v added or replaced.
With(f, k, v) == [ x \in DOMAIN f \cup {k} |-> IF x = k THEN v ELSE f[x] ]

TerminalStep == ghost' = [ ghost EXCEPT !.poll_none = FALSE ]

\* The side of the position with ticket t: odd tickets BUY, even SELL.
SideOf(t) == (t + 1) % 2

\* A position is opened (tickets are handed out in increasing order).
OpenPosition(t, side) ==
    /\ t \notin opened
    /\ side = SideOf(t)
    /\ \A u \in Tickets : u < t => u \in opened
    /\ opened' = opened \cup {t}
    /\ positions' = With(positions, t, NewPosition(t, side))
    /\ deals' = Append(deals, EntryDeal(NewPosition(t, side)))
    /\ ghost' = [ ghost EXCEPT
                    !.poll_none = FALSE,
                    !.live = IF DOMAIN last_known_positions # {}
                             THEN @ \cup {t} ELSE @ ]
    /\ UNCHANGED << serverVars, users, trade_records, trade_configurations, calls, ncalls,
                    last_known_positions, last_known_deals, emitted >>

\* The market moves: the position's current price and floating profit change.
PriceMove(t, price) ==
    /\ t \in DOMAIN positions
    /\ price # positions[t].price_current
    /\ positions' = [ positions EXCEPT
                        ![t].price_current = price,
                        ![t].profit = PositionProfit(positions[t].type,
                                          positions[t].price_open, price) ]
    /\ TerminalStep
    /\ UNCHANGED << serverVars, users, trade_records, trade_configurations, calls, ncalls,
                    deals, opened,
                    last_known_positions, last_known_deals, emitted >>

\* The position is closed at its current price by an opposite-side deal.
ClosePosition(t) ==
    /\ t \in DOMAIN positions
    /\ positions' = Without(positions, t)
    /\ deals' = Append(deals, ExitDeal(positions[t]))
    /\ TerminalStep
    /\ UNCHANGED << serverVars, users, trade_records, trade_configurations, calls, ncalls,
                    opened,
                    last_known_positions, last_known_deals, emitted >>

\* TickMinutes pass: every deal is that much older.  (A deal that would
\* become older than MaxAge ends the span of time the model covers.)
Tick ==
    /\ deals # << >>
    /\ \A i \in 1..Len(deals) : deals[i].age + TickMinutes <= MaxAge
    /\ deals' = [ i \in 1..Len(deals) |->
                    [ deals[i] EXCEPT !.age = @ + TickMinutes ] ]
    /\ TerminalStep
    /\ UNCHANGED << serverVars, users, trade_records, trade_configurations, calls, ncalls,
                    positions, opened,
                    last_known_positions, last_known_deals, emitted >>

\* mt5.history_deals_get(now - W minutes, now); None when the call fails.
HistoryDeals(window, ok) ==
    IF ok THEN SelectSeq(deals, LAMBDA d : d.age <= window) ELSE << >>

(***************************************************************************)
(* The formatters.                                                          *)
(***************************************************************************)
PositionType(pos) == IF pos.type = 0 THEN "BUY" ELSE "SELL"

\* Lookback windows of the deal fetches, in minutes.
NewDealsWindow    == 3
ImmediateWindow   == 1
FullHistoryWindow == 10
DiffWindow        == 1
ClosedLookback    == 15

\* The multiplier of the estimated profit.
EstimateFactor == 100

\* change_percent of both formatters, in whole percent.
ChangePercent(position_type, open_price, close_price) ==
    IF open_price > 0 /\ close_price > 0
    THEN IF position_type = "BUY"
         THEN ((close_price - open_price) * 100) \div open_price
         ELSE ((open_price - close_price) * 100) \div open_price
    ELSE 0

\* format_closed_trade_data(last_position, closing_deal); the positions of
\* the terminal model are manual ones (magic 0, empty comment), for which
\* _determine_bot_attribution returns None.
format_closed_trade_data(last_position, closing_deal) ==
    [ ticket      |-> last_position.ticket,
      type        |-> PositionType(last_position),
      entry_price |-> last_position.price_open,
      exit_price  |-> closing_deal.price,
      profit      |-> closing_deal.profit + closing_deal.commission
                        + closing_deal.swap,
      estimated   |-> FALSE,
      deal        |-> closing_deal.ticket,
      bot_id      |-> None,
      bot_name    |-> None,
      magic       |-> 0,
      time        |-> "opened",
      change_percent |-> ChangePercent(PositionType(last_position),
                                       last_position.price_open,
                                       closing_deal.price) ]

\* format_basic_closed_trade(last_position)
format_basic_closed_trade(last_position) ==
    LET open_price == last_position.price_open
        current_price == IF last_position.price_current = 0
                         THEN open_price
                         ELSE last_position.price_current
        estimated_profit ==
            IF open_price > 0 /\ current_price > 0
            THEN IF PositionType(last_position) = "BUY"
                 THEN (current_price - open_price) * last_position.volume
                        * EstimateFactor
                 ELSE (open_price - current_price) * last_position.volume
                        * EstimateFactor
            ELSE 0
    IN  [ ticket      |-> last_position.ticket,
          type        |-> PositionType(last_position),
          entry_price |-> open_price,
          exit_price  |-> current_price,
          profit      |-> estimated_profit,
          estimated   |-> TRUE,
          deal        |-> 0,
          bot_id      |-> None,
          bot_name    |-> None,
          magic       |-> 0,
          time        |-> "opened",
          change_percent |-> ChangePercent(PositionType(last_position),
                                           open_price, current_price) ]

(***************************************************************************)
(* trade_update events.  The log keeps, per ticket, the event types in the  *)
(* order of emission; of the data of a position_closed event it keeps the   *)
(* estimated flag and the deal the data was built from; a run of            *)
(* consecutive position_updated events is logged once.                      *)
(***************************************************************************)
OpenedEvent ==
    [ type |-> "position_opened", estimated |-> FALSE, deal |-> 0 ]

UpdatedEvent ==
    [ type |-> "position_updated", estimated |-> FALSE, deal |-> 0 ]

ClosedEvent(data) ==
    [ type |-> "position_closed", estimated |-> data.estimated,
      deal |-> data.deal ]

\* The monitor's working state during a cycle:
\* m.lkp = last_known_positions, m.lkd = last_known_deals, m.ev = emitted,
\* m.recs = trade_records, m.cfgs = trade_configurations.

\* socketio.emit('trade_update', {...}) for the ticket.
Emit(m, t, e) ==
    IF /\ e.type = "position_updated"
       /\ m.ev[t] # << >>
       /\ m.ev[t][Len(m.ev[t])].type = "position_updated"
    THEN m
    ELSE [ m EXCEPT !.ev[t] = Append(@, e) ]

\* store_trade_record(closed_trade_data), called from the monitor task.
Store(m, data) ==
    LET r == store_trade_record(users, m.recs, m.cfgs, data) IN
    [ m EXCEPT !.recs = r[1], !.cfgs = r[2] ]

(***************************************************************************)
(* check_for_new_deals / check_immediate_deals: the body of the loop over   *)
(* the fetched deals is the same in both.                                   *)
(***************************************************************************)
ScanDeal(m, deal) ==
    IF deal.ticket \in m.lkd THEN m
    ELSE IF deal.type \notin {0, 1} THEN m
    ELSE LET m1 == [ m EXCEPT !.lkd = @ \cup {deal.ticket} ]
             pid == deal.position_id
         IN  IF pid \in DOMAIN m1.lkp
             THEN LET data == format_closed_trade_data(m1.lkp[pid], deal)
                      m2 == Emit(m1, pid, ClosedEvent(data))
                      m3 == [ m2 EXCEPT !.lkp = Without(@, pid) ]
                  IN  Store(m3, data)
             ELSE m1   \* refresh_trade_history only: no trade_update

RECURSIVE ScanDeals(_, _)
ScanDeals(m, ds) ==
    IF ds = << >> THEN m ELSE ScanDeals(ScanDeal(m, Head(ds)), Tail(ds))

\* The thresholds of the cleanup of last_known_deals.
DealsTrimAbove == 1000
DealsTrimTo    == 500

\* The sets that set(list(last_known_deals)[-to:]) can be: a Python set is
\* iterated in the order of its hash table, which is not the order of
\* insertion, so the last `to` of the list are some `to` of the elements.
KeptDeals(lkd, to) == { S \in SUBSET lkd : Cardinality(S) = to }

\* Lines 1065-1068: if len(last_known_deals) > above: keep the last `to` of
\* list(last_known_deals); kept is the set that comes out.
TrimmedTo(lkd, kept, above, to) ==
    IF Cardinality(lkd) > above THEN kept ELSE lkd

\* check_for_new_deals(current_time): 3-minute lookback, then the cleanup
\* (skipped, like the scan, when the fetch returns nothing).
check_for_new_deals(m, ok) ==
    LET ds == HistoryDeals(NewDealsWindow, ok) IN
    IF ds = << >> THEN m
    ELSE LET m1 == ScanDeals(m, ds) IN
         [ m1 EXCEPT !.lkd =
             TrimmedTo(@, CHOOSE S \in KeptDeals(m1.lkd, DealsTrimTo) : TRUE,
                       DealsTrimAbove, DealsTrimTo) ]

\* check_immediate_deals(current_time): 1-minute lookback.
check_immediate_deals(m, ok) == ScanDeals(m, HistoryDeals(ImmediateWindow, ok))

\* check_full_recent_history(current_time): marks every unprocessed trade
\* deal of the last 10 minutes as processed.
check_full_recent_history(m, ok) ==
    LET ds == HistoryDeals(FullHistoryWindow, ok) IN
    [ m EXCEPT !.lkd = @ \cup { ds[i].ticket : i \in
                                  { j \in 1..Len(ds) : ds[j].type \in {0, 1} } } ]

(***************************************************************************)
(* background_trade_monitor: one iteration of the while loop.               *)
(***************************************************************************)
RECURSIVE Ascending(_)
Ascending(S) ==
    IF S = {} THEN << >>
    ELSE LET x == CHOOSE x \in S : \A y \in S : x <= y
         IN  << x >> \o Ascending(S \ {x})

Min(S) == CHOOSE x \in S : \A y \in S : x <= y

\* The thresholds left out: every polled ticket of the baseline is reported.
OpenedOrUpdatedAlways(m, pos) ==
    IF pos.ticket \notin DOMAIN m.lkp
    THEN Emit(m, pos.ticket, OpenedEvent)
    ELSE Emit(m, pos.ticket, UpdatedEvent)

\* Lines 899-936 for one ticket of the current snapshot.
OpenedOrUpdated(m, pos) ==
    IF pos.ticket \notin DOMAIN m.lkp
    THEN Emit(m, pos.ticket, OpenedEvent)
    ELSE LET old_pos == m.lkp[pos.ticket]
             \* abs(old_profit - new_profit) > 0.001
             profit_changed == Abs(old_pos.profit - pos.profit) * 1000 > 1
             \* abs(old_current_price - new_current_price) > 0.000001
             price_changed ==
                 Abs(old_pos.price_current - pos.price_current) * 1000000 > 1
         IN  IF profit_changed \/ price_changed
             THEN Emit(m, pos.ticket, UpdatedEvent)
             ELSE m

RECURSIVE OpenedOrUpdatedAll(_, _, _)
OpenedOrUpdatedAll(m, snapshot, tickets) ==
    IF tickets = << >> THEN m
    ELSE OpenedOrUpdatedAll(OpenedOrUpdated(m, snapshot[Head(tickets)]),
                            snapshot, Tail(tickets))

\* Lines 950-961: the first deal of the last minute with the position id of
\* the ticket and a BUY or SELL type; 0 when there is none.
ClosingDealIndex(ds, ticket) ==
    LET idx == { i \in 1..Len(ds) : /\ ds[i].position_id = ticket
                                    /\ ds[i].type \in {0, 1} }
    IN  IF idx = {} THEN 0 ELSE Min(idx)

\* Lines 948-984 for one closed ticket.
DiffClose(m, ticket, ok) ==
    IF ticket \notin DOMAIN m.lkp THEN m
    ELSE LET ds == HistoryDeals(DiffWindow, ok)
             k == ClosingDealIndex(ds, ticket)
             data == IF k # 0
                     THEN format_closed_trade_data(m.lkp[ticket], ds[k])
                     ELSE format_basic_closed_trade(m.lkp[ticket])
         IN  Store(Emit(m, ticket, ClosedEvent(data)), data)

RECURSIVE DiffCloseAll(_, _, _)
DiffCloseAll(m, tickets, ok) ==
    IF tickets = << >> THEN m
    ELSE DiffCloseAll(DiffClose(m, Head(tickets), ok), Tail(tickets), ok)

\* Lines 1199-1256 for one closed ticket, ds the deals of the last 15
\* minutes.  (processed_deals holds deals of the tickets handled before, so
\* it never holds a deal with this ticket's position id.)
ProcessClosed(m, ticket, ds) ==
    IF ticket \notin DOMAIN m.lkp THEN m
    ELSE LET idx == { i \in 1..Len(ds) : ds[i].position_id = ticket }
         IN  IF idx # {}
             THEN LET deal == ds[Min(idx)]
                      data == format_closed_trade_data(m.lkp[ticket], deal)
                      m1 == Emit(m, ticket, ClosedEvent(data))
                  IN  [ m1 EXCEPT !.lkd = @ \cup {deal.ticket} ]
             ELSE LET data == format_basic_closed_trade(m.lkp[ticket])
                  IN  Store(Emit(m, ticket, ClosedEvent(data)), data)

RECURSIVE ProcessClosedAll(_, _, _)
ProcessClosedAll(m, tickets, ds) ==
    IF tickets = << >> THEN m
    ELSE ProcessClosedAll(ProcessClosed(m, Head(tickets), ds),
                          Tail(tickets), ds)

\* process_closed_positions(closed_positions, current_time)
process_closed_positions(m, closed_positions, ok) ==
    LET ds == HistoryDeals(ClosedLookback, ok) IN
    IF ds = << >> THEN m ELSE ProcessClosedAll(m, closed_positions, ds)

\* Lines 869-878: mt5.positions_get(), None replaced by [].
CurrentPositions(poll_ok) == IF poll_ok THEN positions ELSE << >>

\* The first-run check left out: no cycle is an initialization.
FirstRunNever(lkp) == FALSE

\* Line 881: the baseline is empty.
FirstRun(lkp) == DOMAIN lkp = {}

\* Lines 887-987 of a cycle past the first-run check: the working state
\* after the deal scans, the opened/updated loop and the closed positions.
\* (The deal scans are due in every cycle: the loop sleeps 0.25 s between
\* cycles and the scans are due after 0.25 s.)
RunCycle(m, snapshot, i) ==
    LET m1 == check_for_new_deals(m, i.scan_ok)
        m2 == check_immediate_deals(m1, i.scan_ok)
        m3 == IF i.full_due THEN check_full_recent_history(m2, i.hist_ok)
              ELSE m2
        m4 == OpenedOrUpdatedAll(m3, snapshot, Ascending(DOMAIN snapshot))
        closed_positions == Ascending(DOMAIN m4.lkp \ DOMAIN snapshot)
        m5 == DiffCloseAll(m4, closed_positions, i.hist_ok)
    IN  IF closed_positions = << >> THEN m5
        ELSE process_closed_positions(m5, closed_positions, i.hist_ok)

\* What the source answers during one cycle: does the positions poll
\* succeed, do the fetches of the two deal scans (lines 1009 and 1083)
\* succeed, do the later fetches of the cycle succeed, is the 60 s
\* full-history scan due.
SourceAnswers ==
    [ poll_ok : BOOLEAN, scan_ok : BOOLEAN, hist_ok : BOOLEAN,
      full_due : BOOLEAN ]

\* The deal history is available during the whole cycle, or not at all.
CycleInputs == { i \in SourceAnswers : i.scan_ok = i.hist_ok }

\* The three ways through one iteration of the while loop of
\* background_trade_monitor; where the loop stands is left to the caller.
\* Line 863-865: the terminal is not connected: sleep and retry.
MonitorSkipBody ==
    /\ ghost' = [ ghost EXCEPT !.poll_none = FALSE ]
    /\ UNCHANGED << priceVars, attribution, botVars, users, trade_records, trade_configurations, calls, ncalls,
                    terminalVars, last_known_positions, last_known_deals,
                    emitted >>

\* Lines 869-885: the baseline is empty: adopt the snapshot.
MonitorInitBody(poll_ok) ==
    /\ FirstRun(last_known_positions)
    /\ poll_ok \/ ghost.faults < MaxFaults
    /\ last_known_positions' = CurrentPositions(poll_ok)
    /\ ghost' = [ ghost EXCEPT
                    !.started = TRUE,
                    !.seen = @ \cup DOMAIN CurrentPositions(poll_ok),
                    !.faults = IF poll_ok THEN @ ELSE @ + 1,
                    !.poll_none = ~ poll_ok ]
    /\ UNCHANGED << priceVars, attribution, botVars, users, trade_records, trade_configurations, calls, ncalls,
                    terminalVars, last_known_deals, emitted >>

\* Lines 869-992: a full cycle.
MonitorRunBody(i) ==
    /\ ~ FirstRun(last_known_positions)
    /\ (i.poll_ok /\ i.scan_ok /\ i.hist_ok) \/ ghost.faults < MaxFaults
    /\ LET snapshot == CurrentPositions(i.poll_ok)
           m == RunCycle([ lkp |-> last_known_positions,
                           lkd |-> last_known_deals,
                           ev |-> emitted,
                           recs |-> trade_records,
                           cfgs |-> trade_configurations ], snapshot, i)
       IN  /\ last_known_positions' = snapshot
           /\ last_known_deals' = m.lkd
           /\ emitted' = m.ev
           /\ trade_records' = m.recs
           /\ trade_configurations' = m.cfgs
           /\ ghost' = [ ghost EXCEPT
                           !.started = TRUE,
                           !.seen = @ \cup DOMAIN snapshot,
                           !.faults = IF i.poll_ok /\ i.scan_ok /\ i.hist_ok
                                      THEN @ ELSE @ + 1,
                           !.poll_none = ~ i.poll_ok ]
    /\ UNCHANGED << priceVars, attribution, botVars, users, calls, ncalls, terminalVars >>

\* The iterations of a monitor loop that never leaves its try block.
MonitorSkip == MonitorSkipBody /\ UNCHANGED loop_pc

MonitorInit(poll_ok) == MonitorInitBody(poll_ok) /\ UNCHANGED loop_pc

MonitorRun(i) == MonitorRunBody(i) /\ UNCHANGED loop_pc

\* The server starts with one registered user and empty tables.  The account
\* may hold n positions that were opened before the longest lookback window:
\* their entry deals are in no window the monitor fetches, so `deals` does not
\* list them.
StartWith(n) ==
    /\ users = 1
    /\ trade_records = << >>
    /\ trade_configurations = << >>
    /\ calls = [ c \in Callers |-> IdleCall ]
    /\ ncalls = 0
    /\ positions = [ t \in 1..n |-> NewPosition(t, SideOf(t)) ]
    /\ opened = 1..n
    /\ deals = << >>
    /\ last_known_positions = << >>
    /\ last_known_deals = {}
    /\ emitted = [ t \in Tickets |-> << >> ]
    /\ ghost = NoHistory
    /\ InitServer

Init == \E n \in 0..MaxOld : StartWith(n)

Prices == BasePrice .. BasePrice + MaxMove

\* The cycles in which the source answers the poll and every history fetch.
OkInputs == { i \in CycleInputs : i.poll_ok /\ i.hist_ok }

\* The terminal and a monitor whose source always answers.
Next ==
    \/ \E t \in Tickets, side \in {0, 1} : OpenPosition(t, side)
    \/ \E t \in Tickets, price \in Prices : PriceMove(t, price)
    \/ \E t \in Tickets : ClosePosition(t)
    \/ Tick
    \/ MonitorSkip
    \/ MonitorInit(TRUE)
    \/ \E i \in OkInputs : MonitorRun(i)

Spec == Init /\ [][Next]_vars

\* The same, with up to MaxFaults cycles in which mt5.positions_get() or
\* mt5.history_deals_get() returns None.
NextFaults ==
    \/ Next
    \/ MonitorInit(FALSE)
    \/ \E i \in CycleInputs \ OkInputs : MonitorRun(i)

SpecFaults == StartWith(0) /\ [][NextFaults]_vars

(***************************************************************************)
(* Properties of the trade monitor.                                         *)
(***************************************************************************)
\* The position_closed events logged for the ticket.
ClosedEvents(t) ==
    { k \in 1..Len(emitted[t]) : emitted[t][k].type = "position_closed" }

\* The terminal closed the position.
ClosedAtTerminal(t) == t \in opened /\ t \notin DOMAIN positions

\* The closing deal of the ticket is in the history and no older than the
\* window: as deals only age, it has been in that window in every cycle
\* since the close.
ExitDealWithin(t, window) ==
    \E d \in 1..Len(deals) : /\ deals[d].ticket = ExitDealTicket(t)
                             /\ deals[d].age <= window

\* C3: a ticket that was in the baseline and has left the snapshot, with its
\* opposite-side closing deal inside every lookback window (the shortest is
\* ImmediateWindow) and processed, has exactly one position_closed event
\* overall, and that event is built from a deal (estimated = false).
C3_ExactlyOneDealDerivedClose ==
    \A t \in Tickets :
        ( /\ t \in ghost.seen
          /\ ClosedAtTerminal(t)
          /\ t \notin DOMAIN last_known_positions
          /\ ExitDealWithin(t, ImmediateWindow)
          /\ ExitDealTicket(t) \in last_known_deals )
        => /\ Cardinality(ClosedEvents(t)) = 1
           /\ \A k \in ClosedEvents(t) :
                ~ emitted[t][k].estimated /\ emitted[t][k].deal # 0

\* C4: position_closed is terminal: no trade_update of any type follows a
\* position_closed of the same ticket.
C4_ClosedIsTerminal ==
    \A t \in Tickets : \A k \in ClosedEvents(t) : k = Len(emitted[t])

\* C5: a cycle whose positions poll returns None is skipped: it emits no
\* trade_update, persists nothing and leaves the baseline unchanged.
C5_NullPollSkipsCycle ==
    [][ ghost'.poll_none =>
          UNCHANGED << emitted, trade_records, last_known_positions >> ]_vars

\* C6: past initialization, a ticket of the snapshot that is not in the
\* baseline gets a position_opened in that cycle, also when the baseline is
\* empty because every earlier position has closed.  (A ticket that enters
\* the baseline in a step was in the snapshot of that cycle.)
C6_NewTicketIsOpened ==
    [][ \A t \in Tickets :
          ( /\ ghost.started /\ ghost.seen # {}
            /\ t \notin DOMAIN last_known_positions
            /\ t \in DOMAIN last_known_positions' )
          => /\ Len(emitted'[t]) = Len(emitted[t]) + 1
             /\ emitted'[t][Len(emitted'[t])].type = "position_opened" ]_vars

\* C7: a position that opened and closed between two polls of the running
\* monitor (it was never in a snapshot), once the deal scans have processed
\* both its deals, has a position_closed event and exactly one trade record.
C7_FlashPositionRecorded ==
    \A t \in Tickets :
        ( /\ t \in ghost.live
          /\ ClosedAtTerminal(t)
          /\ t \notin ghost.seen
          /\ EntryDealTicket(t) \in last_known_deals
          /\ ExitDealTicket(t) \in last_known_deals )
        => /\ ClosedEvents(t) # {}
           /\ Cardinality(RecordsOf(t)) = 1

\* A deal of the history that could close the baseline position of ticket t:
\* its position id is t and its side is opposite to the entry side.
OppositeDeals(t, lkp) ==
    { k \in 1..Len(deals) : /\ deals[k].position_id = t
                            /\ deals[k].type # lkp[t].type }

\* C8: when a baseline ticket leaves the snapshot and the history holds no
\* opposite-side deal of it, every position_closed emitted for it in that
\* cycle is estimated, and a trade record stored for it in that cycle has
\* the last known current price as exit price and the profit estimated
\* from that price.
C8_EstimatedFallback ==
    [][ \A t \in Tickets :
          ( /\ t \in DOMAIN last_known_positions
            /\ t \notin DOMAIN last_known_positions'
            /\ OppositeDeals(t, last_known_positions) = {} )
          => /\ \A k \in (Len(emitted[t]) + 1)..Len(emitted'[t]) :
                  emitted'[t][k].type = "position_closed"
                      => emitted'[t][k].estimated
             /\ \A k \in (Len(trade_records) + 1)..Len(trade_records') :
                  trade_records'[k].ticket = t =>
                    /\ trade_records'[k].exit_price
                         = last_known_positions[t].price_current
                    /\ trade_records'[k].profit_loss
                         = format_basic_closed_trade(
                               last_known_positions[t]).profit ]_vars

\* C9: the deal a position_closed event is built from is the opposite-side
\* deal of that position, never its own entry deal.
C9_ClosingDealIsOppositeSide ==
    \A t \in Tickets : \A k \in ClosedEvents(t) :
        emitted[t][k].deal # 0 =>
            \E d \in 1..Len(deals) :
                /\ deals[d].ticket = emitted[t][k].deal
                /\ deals[d].position_id = t
                /\ deals[d].type # SideOf(t)

\* C10: a cycle that starts with an empty baseline emits no trade_update,
\* stores nothing, and leaves as baseline the snapshot it polled (the open
\* positions, or nothing when the poll failed or the terminal was
\* disconnected).
C10_InitAdoptsSilently ==
    [][ ( DOMAIN last_known_positions = {} /\ UNCHANGED terminalVars )
          => /\ emitted' = emitted
             /\ trade_records' = trade_records
             /\ \/ last_known_positions' = positions
                \/ DOMAIN last_known_positions' = {} ]_vars

\* C10 witness: the monitor has adopted open positions as its baseline and
\* no trade_update has been emitted.
C10_Witness ==
    /\ ghost.started
    /\ DOMAIN last_known_positions # {}
    /\ \A t \in Tickets : emitted[t] = << >>

\* The step appended a position_updated event to the log of the ticket.
UpdatedAppended(t) ==
    /\ Len(emitted'[t]) = Len(emitted[t]) + 1
    /\ emitted'[t][Len(emitted'[t])].type = "position_updated"

Timeframes == {"1m", "5m", "1h", "4h", "1d", "1w"}
DerivedTimeframes == {"5m", "1h", "4h", "1d", "1w"}

\* The timeframes the clients of the model ask for.
Subscribable == {"1m", "5m"}

Option(S) == { << >> } \cup { << x >> : x \in S }

\* The 1m bars the source may return: the start times need not increase.
Bars ==
    [ time : { 60 * k : k \in 0..MaxBarTime }, open : {BasePrice},
      high : {BasePrice + MaxMove}, low : {BasePrice}, close : Levels ]

\* The bars the source may return for a derived timeframe.
DerivedBars ==
    [ time : {0}, open : {BasePrice}, high : {BasePrice + MaxMove},
      low : {BasePrice}, close : Levels ]

\* format_candle (517-550): None for a missing rate, else the five fields.
format_candle(rate) ==
    IF rate = << >> THEN << >>
    ELSE << [ time |-> rate[1].time, open |-> rate[1].open,
              high |-> rate[1].high, low |-> rate[1].low,
              close |-> rate[1].close ] >>

\* candle['timeframe'] = tf (696, 739, 775).
Tag(candle, tf) ==
    [ time |-> candle.time, open |-> candle.open, high |-> candle.high,
      low |-> candle.low, close |-> candle.close, timeframe |-> tf ]

PeriodSeconds(timeframe) ==
    CASE timeframe = "5m" -> 300
      [] timeframe = "1h" -> 3600
      [] timeframe = "4h" -> 14400
      [] timeframe = "1d" -> 86400
      [] OTHER -> 60

\* getCandleStartTime (581-620), the server's local time being UTC; the week
\* starts on Monday and 1970-01-01 was a Thursday (weekday() = 3).
getCandleStartTime(timestamp, timeframe) ==
    IF timeframe = "1w"
    THEN LET day == timestamp - (timestamp % 86400)
         IN  day - (((day \div 86400) + 3) % 7) * 86400
    ELSE timestamp - (timestamp % PeriodSeconds(timeframe))

(***************************************************************************)
(* Throttle maps.                                                           *)
(***************************************************************************)
\* d milliseconds pass: every stamp of the map gets d older, up to cap.
ElapseTo(f, d, cap) ==
    [ k \in DOMAIN f |-> IF f[k] + d > cap THEN cap ELSE f[k] + d ]

\* current_time - f.get(k, 0), up to cap.
Age(f, k, cap) == IF k \in DOMAIN f THEN f[k] ELSE cap

\* f[k] = current_time for every k of keys.
Stamp(f, keys) ==
    [ k \in DOMAIN f \cup keys |-> IF k \in keys THEN 0 ELSE f[k] ]

Restrict(f, keys) == [ k \in DOMAIN f \cap keys |-> f[k] ]

(***************************************************************************)
(* background_price_updater: one iteration of the while loop (642-841).     *)
(***************************************************************************)
\* Line 679.
is_new_candle(candle, last_processed) == candle.time > last_processed

\* Lines 686-688 and 768-772: close, high or low differ; open is not compared.
has_changes(candle, last) ==
    \/ candle.close # last.close
    \/ candle.high # last.high
    \/ candle.low # last.low

\* Lines 685-688.
is_price_update(candle, last_processed, last_sent) ==
    /\ ~ is_new_candle(candle, last_processed)
    /\ "1m" \in DOMAIN last_sent
    /\ has_changes(candle, last_sent["1m"])

\* Lines 702 and 726.
tf_clients(ct, tf) == { sid \in DOMAIN ct : ct[sid] = tf }

\* The check of line 727 left out: every derived timeframe is polled.
PollsTimeframeAlways(ct, tf) == TRUE

\* Line 727: the source is polled for tf in both branches below it.
PollsTimeframe(ct, tf) == tf_clients(ct, tf) # {}

\* Lines 732-774: the polled candle of tf is stored and sent.
DerivedDue(last_sent, tf, candle_start_time, tf_candle) ==
    /\ tf_candle # << >>
    /\ \/ tf \notin DOMAIN last_sent
       \/ last_sent[tf].time # candle_start_time
       \/ has_changes(tf_candle[1], last_sent[tf])

\* Lines 708-711, 746-749, 782-785: the clients the throttle lets through.
Passing(lce, sids, interval) ==
    { sid \in sids : Age(lce, sid, Horizon) >= interval }

\* The check of line 813 left out: every iteration that finds the terminal
\* disconnected sends the notice.
StatusDueAlways(lce, sid) == TRUE

\* Lines 809-813: the last emission of the loop to sid is 5 s old, or there
\* is none (last_client_emission.get(sid, 0)).
StatusDue(lce, sid) == Age(lce, sid, Horizon) >= StatusInterval

\* No except clause: an exception ends the loop.
NoExceptClause == "dead"

\* Lines 839 and 993: `except Exception` inside `while True` takes every
\* exception of the try block.
ExceptClause == "except"

\* The inputs of one iteration: the time since the loop last read the clock,
\* the answer of mt5.terminal_info, the bars the source returns for 1m and
\* for a derived timeframe, and whether socketio.emit works.
PriceInputs ==
    [ gap : {ShortGap, LongGap, Horizon}, connected : BOOLEAN,
      bar : Option(Bars), tf_bar : Option(DerivedBars), emit_ok : BOOLEAN ]

\* What mt5.copy_rates_from_pos does when a derived timeframe is polled
\* (lines 734 and 762): it raises, or returns rates (None or no row: << >>).
PollAnswers ==
    [ raises : {FALSE}, rates : Option(DerivedBars) ]
      \cup { [ raises |-> TRUE, rates |-> << >> ] }

\* No except clause around the poll of a timeframe: its exception leaves the
\* for statement of line 721 and ends at line 800.
NoTimeframeExceptClause == FALSE

\* Lines 755 and 791: `except Exception` around the poll of one timeframe
\* takes every exception of it.
TimeframeExceptClause == TRUE

\* The exception of a poll gets out of the body of the for statement.
Escapes(answer) == answer.raises /\ ~ TimeframeExceptClause

\* Lines 733-737 and 761-765: the candle the loop has of a polled
\* timeframe, none when the poll raised.
PolledCandle(answer) ==
    IF answer.raises THEN << >> ELSE format_candle(answer.rates)

\* Line 721: the order in which the derived timeframes are worked through.
DerivedOrder == << "5m", "1h", "4h", "1d", "1w" >>

\* The timeframes of line 721 the for statement gets to: those before which
\* no poll's exception got out of its body.
Reached(subscribed, answers) ==
    { DerivedOrder[j] : j \in
        { i \in 1..Len(DerivedOrder) :
            \A k \in 1..(i - 1) :
               DerivedOrder[k] \in subscribed
                 => ~ Escapes(answers[DerivedOrder[k]]) } }

\* One iteration, answers[tf] being what the source does when tf is polled.
\* `raised` tells that an exception reached line 839; the exceptions of
\* lines 672-799 end at line 800 and those of the derived timeframes at
\* lines 755 and 791.
PriceCycleOf(inp, answers) ==
    LET ct    == client_timeframes
        lp    == last_processed_m1_candle_time
        ls    == last_sent_candle_by_timeframe
        lce0  == ElapseTo(last_client_emission, inp.gap, Horizon)
        sent0 == ElapseTo(feed.sent_at, inp.gap, Horizon)
        stat0 == ElapseTo(feed.status_at, inp.gap, Horizon)
        c     == format_candle(inp.bar)
        has   == inp.connected /\ c # << >>
        new   == has /\ is_new_candle(c[1], lp)
        act   == has /\ (new \/ is_price_update(c[1], lp, ls))
        lp1   == IF new THEN c[1].time ELSE lp
        ls1   == IF act THEN With(ls, "1m", Tag(c[1], "1m")) ELSE ls
        m1_pass == IF act
                   THEN Passing(lce0, tf_clients(ct, "1m"),
                                MinClientEmissionInterval)
                   ELSE {}
        \* socketio.emit raises at line 712: the rest of the block is skipped
        base_raised == ~ inp.emit_ok /\ m1_pass # {}
        lce1  == IF inp.emit_ok THEN Stamp(lce0, m1_pass) ELSE lce0
        derived == act /\ ~ base_raised
        subscribed == IF derived
                      THEN { tf \in DerivedTimeframes : PollsTimeframe(ct, tf) }
                      ELSE {}
        tfc   == [ tf \in DerivedTimeframes |-> PolledCandle(answers[tf]) ]
        polled == subscribed \cap Reached(subscribed, answers)
        due   == { tf \in polled :
                     DerivedDue(ls, tf, getCandleStartTime(c[1].time, tf),
                                tfc[tf]) }
        ls2   == [ tf \in DOMAIN ls1 \cup due |->
                     IF tf \in due THEN Tag(tfc[tf][1], tf) ELSE ls1[tf] ]
        tf_pass == UNION { Passing(lce1, tf_clients(ct, tf),
                                   MinClientEmissionInterval) : tf \in due }
        lce2  == IF inp.emit_ok THEN Stamp(lce1, tf_pass) ELSE lce1
        \* lines 808-819: MT5 not connected
        status_pass == IF inp.connected THEN {}
                       ELSE { sid \in DOMAIN ct : StatusDue(lce0, sid) }
        raised == ~ inp.emit_ok /\ status_pass # {}
        lce3  == IF inp.emit_ok THEN Stamp(lce2, status_pass) ELSE lce2
        \* lines 834-836, skipped when the iteration raised
        lce4  == IF raised THEN lce3 ELSE Restrict(lce3, DOMAIN ct)
        opps  == { << sid, "1m" >> : sid \in IF act THEN tf_clients(ct, "1m")
                                             ELSE {} }
                 \cup { o \in (DOMAIN ct) \X due :
                           o[1] \in tf_clients(ct, o[2]) }
        sends == IF inp.emit_ok
                 THEN { o \in opps : o[1] \in m1_pass \cup tf_pass }
                 ELSE {}
        gone  == { sid \in DOMAIN feed.sids : feed.sids[sid] = "gone" }
    IN  [ lp |-> lp1, ls |-> ls2, lce |-> lce4, raised |-> raised,
          fd |-> [ feed EXCEPT
                     !.swept = IF raised THEN @ ELSE gone,
                     !.polls = IF has THEN 1 ELSE @,
                     !.base_emits = IF act THEN 1 ELSE @,
                     !.bar = IF has THEN inp.bar ELSE << >>,
                     !.by_start = IF act THEN With(@, c[1].time, c[1]) ELSE @,
                     !.recorded = act,
                     !.polled = polled,
                     !.opps = opps,
                     !.sends = sends,
                     !.quiet = { sid \in DOMAIN feed.sids :
                                   \A tf \in Timeframes :
                                   Age(sent0, << sid, tf >>,
                                       MinClientEmissionInterval)
                                     >= MinClientEmissionInterval },
                     !.quiet_tf = { o \in opps :
                                      /\ Age(sent0, o, MinClientEmissionInterval)
                                           >= MinClientEmissionInterval
                                      /\ Age(stat0, o[1],
                                             MinClientEmissionInterval)
                                           >= MinClientEmissionInterval },
                     !.sent_at = Restrict(Stamp(sent0, sends),
                                          (DOMAIN ct) \X Timeframes),
                     !.status_at =
                         Restrict(IF inp.emit_ok THEN Stamp(stat0, status_pass)
                                  ELSE stat0, DOMAIN ct),
                     !.short = IF inp.gap < Horizon THEN @ + 1 ELSE @,
                     !.tick = ~ @ ] ]

\* One iteration in which every derived timeframe polled gets the same
\* answer: the rates inp.tf_bar.
PriceCycle(inp) ==
    PriceCycleOf(inp, [ tf \in DerivedTimeframes |->
                          [ raises |-> FALSE, rates |-> inp.tf_bar ] ])

\* The iteration with outcome r takes place.
IterationOf(inp, r) ==
    /\ loop_pc.price = "cycle"
    /\ inp.gap >= Horizon \/ feed.short < MaxShort
    /\ inp.connected \/ inp.bar = << >>
    /\ last_processed_m1_candle_time' = r.lp
    /\ last_sent_candle_by_timeframe' = r.ls
    /\ last_client_emission' = r.lce
    /\ feed' = r.fd
    /\ loop_pc' = [ loop_pc EXCEPT
                      !.price = IF r.raised THEN ExceptClause ELSE "cycle",
                      !.resumed = IF r.raised THEN @
                                  ELSE @ \cup (loop_pc.caught \cap {"price"}) ]
    /\ last_emissions' = ElapseTo(last_emissions, inp.gap,
                                  TimeframeUpdateInterval)
    /\ UNCHANGED << storeVars, terminalVars, monitorVars, client_timeframes,
                    attribution, botVars >>

\* Lines 642-838 and, when the iteration raised, the jump to line 839.
PriceIteration(inp) ==
    /\ inp.tf_bar = << >> \/
         (inp.bar # << >> /\ \E tf \in DerivedTimeframes :
                               PollsTimeframe(client_timeframes, tf))
    /\ IterationOf(inp, PriceCycle(inp))

(***************************************************************************)
(* The socket handlers (3216-3255, 3276-3425).                              *)
(***************************************************************************)
\* Lines 3278-3280 of send_timeframe_update: a timeframe that is not a key
\* of timeframes_mt5_constants is replaced by 1m, for this update only.
Defaulted(timeframe_str) ==
    IF timeframe_str \in Timeframes THEN timeframe_str ELSE "1m"

\* send_timeframe_update (3276-3363): unless an update of this timeframe went
\* to this client less than a second ago, a price_update with the candle of
\* the source, or with a dummy candle, is sent and the stamp is set.
send_timeframe_update(le, sid, timeframe_str) ==
    LET served == Defaulted(timeframe_str)
    IN  IF Age(le, << sid, served >>, TimeframeUpdateInterval)
             < TimeframeUpdateInterval
        THEN le
        ELSE Stamp(le, { << sid, served >> })

Subscribe(sid, timeframe) ==
    /\ client_timeframes' = With(client_timeframes, sid, timeframe)
    /\ last_emissions' = send_timeframe_update(last_emissions, sid, timeframe)

\* handle_connect (3365-3413) up to its `with thread_lock` (3397), which
\* the handler has yet to enter.
HandleConnect(sid, timeframe) ==
    /\ feed.sids[sid] = "new"
    /\ Subscribe(sid, timeframe)
    /\ feed' = [ feed EXCEPT !.sids[sid] = "connected" ]
    /\ loop_pc' = [ loop_pc EXCEPT !.tasks.connects = With(@, sid, "with") ]
    /\ UNCHANGED << storeVars, terminalVars, monitorVars,
                    last_processed_m1_candle_time,
                    last_sent_candle_by_timeframe, last_client_emission,
                    attribution, botVars >>

\* handle_set_timeframe (3237-3255).
HandleSetTimeframe(sid, timeframe) ==
    /\ feed.sids[sid] = "connected"
    /\ Subscribe(sid, timeframe)
    /\ UNCHANGED << storeVars, terminalVars, monitorVars,
                    last_processed_m1_candle_time,
                    last_sent_candle_by_timeframe, last_client_emission,
                    feed, loop_pc, attribution, botVars >>

\* handle_request_update (3216-3235).
HandleRequestUpdate(sid, timeframe) ==
    /\ feed.sids[sid] = "connected"
    /\ Subscribe(sid, timeframe)
    /\ UNCHANGED << storeVars, terminalVars, monitorVars,
                    last_processed_m1_candle_time,
                    last_sent_candle_by_timeframe, last_client_emission,
                    feed, loop_pc, attribution, botVars >>

\* handle_disconnect (3415-3425).
HandleDisconnect(sid) ==
    /\ feed.sids[sid] = "connected"
    /\ client_timeframes' = Without(client_timeframes, sid)
    /\ feed' = [ feed EXCEPT !.sids[sid] = "gone" ]
    /\ UNCHANGED << storeVars, terminalVars, monitorVars,
                    last_processed_m1_candle_time,
                    last_sent_candle_by_timeframe, last_client_emission,
                    last_emissions, loop_pc, attribution, botVars >>

\* The iterations in which socketio.emit works.
EmitOkInputs == { inp \in PriceInputs : inp.emit_ok }

\* Iterations a long time apart, the terminal being connected: every
\* throttle stamp has expired.
CandleInputs ==
    { inp \in EmitOkInputs : inp.gap = Horizon /\ inp.connected }

\* Iterations any time apart that poll bars of one period start.
ThrottleInputs ==
    { inp \in EmitOkInputs :
        /\ \A i \in 1..Len(inp.bar) : inp.bar[i].time = 60
        /\ \A i \in 1..Len(inp.tf_bar) : inp.tf_bar[i].close = BasePrice }

\* The clients and a price loop whose iterations are a long time apart.
NextPrice ==
    \/ \E sid \in Clients, tf \in Subscribable : HandleConnect(sid, tf)
    \/ \E sid \in Clients, tf \in Subscribable : HandleSetTimeframe(sid, tf)
    \/ \E sid \in Clients, tf \in Subscribable : HandleRequestUpdate(sid, tf)
    \/ \E sid \in Clients : HandleDisconnect(sid)
    \/ \E inp \in CandleInputs : PriceIteration(inp)

SpecPrice == StartWith(0) /\ [][NextPrice]_vars

\* The clients and a price loop whose iterations may follow one another
\* within the throttle intervals.
NextThrottle ==
    \/ \E sid \in Clients, tf \in Subscribable : HandleConnect(sid, tf)
    \/ \E sid \in Clients, tf \in Subscribable : HandleSetTimeframe(sid, tf)
    \/ \E sid \in Clients, tf \in Subscribable : HandleRequestUpdate(sid, tf)
    \/ \E sid \in Clients : HandleDisconnect(sid)
    \/ \E inp \in ThrottleInputs : PriceIteration(inp)

SpecThrottle == StartWith(0) /\ [][NextThrottle]_vars

(***************************************************************************)
(* Properties of the price feed.                                            *)
(***************************************************************************)
\* The step is an iteration of the price loop.
IterationStep == feed'.tick # feed.tick

\* The step is an iteration that recorded (and sent to the 1m clients the
\* throttle lets through) a 1m candle.
BaseCandleRecorded == IterationStep /\ feed'.recorded

SameOHLC(a, b) ==
    /\ a.open = b.open /\ a.high = b.high
    /\ a.low = b.low /\ a.close = b.close

\* C12: the 1m candles the price loop records are non-decreasing in their
\* start time, whatever bars the source returns: a candle is never recorded
\* with a start time before that of the candle recorded last.
C12_BaseCandlesNonDecreasing ==
    [][ ( BaseCandleRecorded /\ "1m" \in DOMAIN last_sent_candle_by_timeframe )
          => last_sent_candle_by_timeframe'["1m"].time
               >= last_sent_candle_by_timeframe["1m"].time ]_vars

\* C13: a 1m candle is recorded for a start time that was recorded before
\* only when its open, high, low or close differs from the candle recorded
\* last for that start time; and an iteration that polls the same bar as the
\* iteration before it records nothing and leaves the candle state as it is.
C13_RepeatOnlyWhenChanged ==
    [][ /\ ( /\ BaseCandleRecorded
             /\ last_sent_candle_by_timeframe'["1m"].time
                  \in DOMAIN feed.by_start )
          => ~ SameOHLC(last_sent_candle_by_timeframe'["1m"],
                        feed.by_start[
                            last_sent_candle_by_timeframe'["1m"].time])
        /\ ( IterationStep /\ feed'.bar # << >> /\ feed'.bar = feed.bar )
          => /\ ~ feed'.recorded
             /\ UNCHANGED << last_processed_m1_candle_time,
                             last_sent_candle_by_timeframe >> ]_vars

\* C14: the first 1m bar ever polled is recorded as the baseline, also when
\* its start time is not after the initial last_processed_m1_candle_time:
\* once a bar has been polled, a 1m candle has been recorded.
C14_FirstBarIsBaseline ==
    feed.polls >= 1 => feed.base_emits >= 1

\* C15: whenever an iteration of the price loop has a candle due to a
\* client, the price_update is sent if and only if at least 250 ms have passed
\* since the loop last sent a price_update to that client.
C15_ThrottleFloor ==
    \A o \in feed.opps : o \in feed.sends <=> o[1] \in feed.quiet

\* C16: the throttle is kept per client and timeframe: a candle of timeframe
\* tf due to a client is sent unless the loop sent that client a price_update
\* of the same timeframe (or a connection_status) within the last 250 ms.
C16_ThrottlePerTimeframe ==
    \A o \in feed.opps : o \in feed.quiet_tf => o \in feed.sends

\* C17: once a client has disconnected and an iteration of the price loop
\* has completed after that, no map holds an entry of its socket id:
\* client_timeframes, last_client_emission and
\* send_timeframe_update.last_emissions.
C17_DisconnectPurgesAllEntries ==
    \A sid \in feed.swept :
        /\ sid \notin DOMAIN client_timeframes
        /\ sid \notin DOMAIN last_client_emission
        /\ \A tf \in Timeframes : << sid, tf >> \notin DOMAIN last_emissions

\* C18: an iteration of the price loop polls the source for a derived
\* timeframe only if a client is subscribed to that timeframe during the
\* iteration; a derived timeframe without subscriber is not polled.
C18_PollsOnlySubscribed ==
    [][ IterationStep =>
          \A tf \in feed'.polled :
              /\ tf \in DerivedTimeframes
              /\ \E sid \in DOMAIN client_timeframes :
                     client_timeframes[sid] = tf ]_vars

\* C18 witness: the latest iteration recorded a 1m candle and polled 5m, which
\* has a subscriber, and none of the timeframes without subscriber.
C18_Witness ==
    /\ feed.recorded
    /\ feed.polled = {"5m"}
    /\ \E sid \in DOMAIN client_timeframes : client_timeframes[sid] = "5m"

(***************************************************************************)
(* _determine_bot_attribution (1428-1474).  A string is a sequence of atoms *)
(* ("TradePulse", "_", "bot", "1"): no atom contains "_" or a part of       *)
(* another atom, so `in` and split on atoms are those of Python on the      *)
(* strings the atoms spell.                                                 *)
(***************************************************************************)
Atoms == {"TradePulse", "_", "bot", "1"}

RECURSIVE SeqsUpTo(_, _)
SeqsUpTo(S, n) ==
    IF n = 0 THEN { << >> }
    ELSE LET shorter == SeqsUpTo(S, n - 1)
         IN  shorter \cup { Append(q, x) : q \in shorter, x \in S }

\* The positions at which sub occurs in str.
Find(str, sub) ==
    { i \in 1..(Len(str) - Len(sub) + 1) :
        SubSeq(str, i, i + Len(sub) - 1) = sub }

\* sub in str
Contains(str, sub) == Find(str, sub) # {}

\* str.split(sep)
RECURSIVE Split(_, _)
Split(str, sep) ==
    IF ~ Contains(str, sep) THEN << str >>
    ELSE LET i == Min(Find(str, sep))
         IN  << SubSeq(str, 1, i - 1) >>
               \o Split(SubSeq(str, i + Len(sep), Len(str)), sep)

\* Lines 1434-1438: the dict of a registered bot.
RegisteredBot(bot_id, magic_number) ==
    [ bot_id |-> bot_id,
      bot_name |-> << "Bot " >> \o
                   ( IF Contains(bot_id, << "_" >>)
                     THEN LET parts == Split(bot_id, << "_" >>)
                          IN  parts[Len(parts)]
                     ELSE bot_id ),
      magic_number |-> magic_number ]

\* Lines 1444-1449: the dict built from the comment.
CommentBot(comment, magic_number) ==
    LET bot_id_part ==
            Split(Split(comment, << "_", "bot", "_" >>)[2], << "_" >>)[1]
    IN  [ bot_id |-> << "bot", "_" >> \o bot_id_part,
          bot_name |-> << "Bot " >> \o bot_id_part,
          magic_number |-> magic_number ]

\* Lines 1455-1459 and 1463-1467.
UnknownBot(magic_number) ==
    [ bot_id |-> << "unknown" >>, bot_name |-> << "TradePulse Bot" >>,
      magic_number |-> magic_number ]

\* Line 1454 and line 1462.
InReservedRange(magic_number) ==
    magic_number >= MagicLow /\ magic_number <= MagicHigh

\* Method 1 left out: no registered bot ever matches.
MatchingManagersNone(managers, magic_number) == {}

\* Lines 1432-1433: the registered bots whose magic number is magic_number;
\* managers lists bot_managers.items() in the order of the dict.
MatchingManagers(managers, magic_number) ==
    { i \in 1..Len(managers) :
        managers[i].unique_magic_number = magic_number }

_determine_bot_attribution(managers, magic_number, comment) ==
    IF MatchingManagers(managers, magic_number) # {}
    THEN << RegisteredBot(
              managers[Min(MatchingManagers(managers, magic_number))].bot_id,
              magic_number) >>
    ELSE IF Contains(comment, << "TradePulse" >>)
              /\ Contains(comment, << "_", "bot", "_" >>)
    THEN << CommentBot(comment, magic_number) >>
    ELSE IF Contains(comment, << "TradePulse" >>)
              /\ InReservedRange(magic_number)
    THEN << UnknownBot(magic_number) >>
    ELSE IF InReservedRange(magic_number)
    THEN << UnknownBot(magic_number) >>
    ELSE << >>

\* The inputs of the model: order comments of up to MaxCommentLen atoms, magic
\* numbers around the reserved range, and up to two registered bots.
Comments == SeqsUpTo(Atoms, MaxCommentLen)
Magics == { OtherMagic, MagicLow - 1, MagicLow, MagicHigh, MagicHigh + 1 }
Registries ==
    { << >>,
      << [ bot_id |-> << "bot", "_", "bot" >>, unique_magic_number |-> MagicLow ] >>,
      << [ bot_id |-> << "bot" >>, unique_magic_number |-> OtherMagic ],
         [ bot_id |-> << "bot", "_", "bot" >>, unique_magic_number |-> MagicLow ],
         [ bot_id |-> << "1" >>, unique_magic_number |-> MagicLow ] >> }

InitAttribution ==
    /\ users = 1
    /\ trade_records = << >>
    /\ trade_configurations = << >>
    /\ calls = [ c \in Callers |-> IdleCall ]
    /\ ncalls = 0
    /\ positions = << >>
    /\ deals = << >>
    /\ opened = {}
    /\ last_known_positions = << >>
    /\ last_known_deals = {}
    /\ emitted = [ t \in Tickets |-> << >> ]
    /\ ghost = NoHistory
    /\ client_timeframes = << >>
    /\ last_processed_m1_candle_time = 0
    /\ last_sent_candle_by_timeframe = << >>
    /\ last_client_emission = << >>
    /\ last_emissions = << >>
    /\ feed = NoFeed
    /\ loop_pc = LoopsStart
    /\ attribution \in [ magic_number : Magics, comment : Comments,
                         bot_managers : Registries, called : {FALSE},
                         result : { << >> } ]
    /\ InitBots

\* One call of _determine_bot_attribution(magic_number, comment).
DetermineBotAttribution ==
    /\ ~ attribution.called
    /\ attribution' =
         [ attribution EXCEPT
             !.called = TRUE,
             !.result = _determine_bot_attribution(
                            attribution.bot_managers,
                            attribution.magic_number, attribution.comment) ]
    /\ UNCHANGED << storeVars, terminalVars, monitorVars, priceVars, loop_pc,
                    botVars >>

NextAttribution == DetermineBotAttribution

SpecAttribution == InitAttribution /\ [][NextAttribution]_vars

\* The resolution order of the specification.  The bot id embedded in a
\* comment is what follows the first "_bot_" up to the next "_" or the end.
EmbeddedBotId(comment) ==
    LET i == Min(Find(comment, << "_", "bot", "_" >>)) + 3
        stops == { j \in i..Len(comment) : comment[j] = "_" }
    IN  SubSeq(comment, i, IF stops = {} THEN Len(comment) ELSE Min(stops) - 1)

ReferenceBotName(bot_id) ==
    LET cuts == { j \in 1..Len(bot_id) : bot_id[j] = "_" }
    IN  << "Bot " >> \o
        ( IF cuts = {} THEN bot_id
          ELSE SubSeq(bot_id, (CHOOSE j \in cuts : \A k \in cuts : k <= j) + 1,
                      Len(bot_id)) )

ReferenceAttribution(managers, magic_number, comment) ==
    LET live == { i \in 1..Len(managers) :
                    managers[i].unique_magic_number = magic_number }
    IN  IF live # {}
        THEN << [ bot_id |-> managers[Min(live)].bot_id,
                  bot_name |-> ReferenceBotName(managers[Min(live)].bot_id),
                  magic_number |-> magic_number ] >>
        ELSE IF /\ \E j \in 1..Len(comment) : comment[j] = "TradePulse"
                /\ Find(comment, << "_", "bot", "_" >>) # {}
        THEN << [ bot_id |-> << "bot", "_" >> \o EmbeddedBotId(comment),
                  bot_name |-> << "Bot " >> \o EmbeddedBotId(comment),
                  magic_number |-> magic_number ] >>
        ELSE IF MagicLow <= magic_number /\ magic_number <= MagicHigh
        THEN << [ bot_id |-> << "unknown" >>,
                  bot_name |-> << "TradePulse Bot" >>,
                  magic_number |-> magic_number ] >>
        ELSE << >>

\* C19: for every magic number, comment and set of registered bots,
\* _determine_bot_attribution returns what the resolution order gives: the
\* registered bot with that magic number; else the bot id embedded in a
\* TradePulse "_bot_" comment; else the unknown bot for a magic number in
\* 234000..300000; else None.
C19_AttributionOrder ==
    attribution.called =>
        attribution.result =
            ReferenceAttribution(attribution.bot_managers,
                                 attribution.magic_number, attribution.comment)

\* C19 witness: a call whose magic number is that of a registered bot and in
\* the reserved range, and whose comment embeds another bot id: the
\* registered bot is returned.
C19_Witness ==
    /\ attribution.called
    /\ attribution.magic_number = MagicLow
    /\ attribution.comment = << "TradePulse", "_", "bot", "_", "1" >>
    /\ attribution.bot_managers # << >>
    /\ attribution.result # << >>
    /\ attribution.result[1].bot_id = << "bot", "_", "bot" >>
    /\ attribution.result[1].bot_name = << "Bot ", "bot" >>

(***************************************************************************)
(* The two background loops with the exceptions of their cycle bodies.      *)
(* Each loop is a task of its own that the server keeps scheduling:         *)
(* socketio.sleep yields and returns.                                       *)
(***************************************************************************)
\* Lines 839-841: the except clause of the price loop logs and sleeps 1 s;
\* control is back at `while True`.
PriceExcept ==
    /\ loop_pc.price = "except"
    /\ loop_pc' = [ loop_pc EXCEPT !.price = "cycle",
                                   !.caught = @ \cup {"price"} ]
    /\ last_client_emission' = ElapseTo(last_client_emission, ErrorSleep,
                                        Horizon)
    /\ last_emissions' = ElapseTo(last_emissions, ErrorSleep,
                                  TimeframeUpdateInterval)
    /\ feed' = [ feed EXCEPT
                   !.sent_at = ElapseTo(@, ErrorSleep, Horizon),
                   !.status_at = ElapseTo(@, ErrorSleep, Horizon) ]
    /\ UNCHANGED << storeVars, terminalVars, monitorVars, client_timeframes,
                    last_processed_m1_candle_time,
                    last_sent_candle_by_timeframe, attribution, botVars >>

\* Lines 860-990: an iteration of the trade monitor that raises nothing.
MonitorCycle ==
    /\ loop_pc.monitor = "cycle"
    /\ \/ MonitorSkipBody
       \/ MonitorInitBody(TRUE)
       \/ \E i \in OkInputs : MonitorRunBody(i)
    /\ loop_pc' = [ loop_pc EXCEPT
                      !.tick = ~ @,
                      !.resumed = @ \cup (loop_pc.caught \cap {"monitor"}) ]

\* Lines 868, 993: mt5.positions_get raises; nothing was emitted or stored
\* in this iteration yet.
MonitorRaise ==
    /\ loop_pc.monitor = "cycle"
    /\ loop_pc' = [ loop_pc EXCEPT !.monitor = ExceptClause, !.tick = ~ @ ]
    /\ UNCHANGED << storeVars, terminalVars, monitorVars, priceVars,
                    attribution, botVars >>

\* Lines 993-995: the except clause of the trade monitor logs and sleeps 2 s.
MonitorExcept ==
    /\ loop_pc.monitor = "except"
    /\ loop_pc' = [ loop_pc EXCEPT !.monitor = "cycle",
                                   !.caught = @ \cup {"monitor"} ]
    /\ UNCHANGED << storeVars, terminalVars, monitorVars, priceVars,
                    attribution, botVars >>

\* Iterations of the price loop a long time apart that poll one 1m bar or
\* none, with socketio.emit working or raising.
LoopInputs ==
    { inp \in PriceInputs :
        /\ inp.gap = Horizon
        /\ inp.tf_bar = << >>
        /\ \A i \in 1..Len(inp.bar) :
               inp.bar[i].time = 60 /\ inp.bar[i].close = BasePrice }

NextLoops ==
    \/ \E sid \in Clients, tf \in Subscribable : HandleConnect(sid, tf)
    \/ \E inp \in LoopInputs : PriceIteration(inp)
    \/ PriceExcept
    \/ MonitorCycle
    \/ MonitorRaise
    \/ MonitorExcept

\* Each loop takes its next step as long as it has one.
LoopsFairness ==
    /\ WF_vars(\E inp \in LoopInputs : PriceIteration(inp))
    /\ WF_vars(PriceExcept)
    /\ WF_vars(MonitorCycle \/ MonitorRaise)
    /\ WF_vars(MonitorExcept)

SpecLoops == Init /\ [][NextLoops]_vars /\ LoopsFairness

\* C20: in both loops an exception of the cycle body ends in the except
\* clause, from which the loop returns to `while True`; neither loop ever
\* terminates, and each of them starts iterations infinitely often.
C20_LoopsKeepCycling ==
    /\ [] ( /\ loop_pc.price \in {"cycle", "except"}
            /\ loop_pc.monitor \in {"cycle", "except"} )
    /\ (loop_pc.price = "except") ~> (loop_pc.price = "cycle")
    /\ (loop_pc.monitor = "except") ~> (loop_pc.monitor = "cycle")
    /\ []<> feed.tick /\ []<> ~ feed.tick
    /\ []<> loop_pc.tick /\ []<> ~ loop_pc.tick

\* C20 witness: both loops have caught an exception and have completed an
\* iteration after it.
C20_Witness ==
    loop_pc.resumed = {"price", "monitor"}

(***************************************************************************)
(* Configuration snapshots: store_trade_config_snapshot, called from a     *)
(* bot's trade_executed notification (on_bot_update), next to the upsert of *)
(* store_trade_record.                                                      *)
(***************************************************************************)

\* TradeConfiguration(...) of lines 412-439; entry_time is parsed from the
\* event and is None when the event carries none.
NewTradeConfiguration(evt) ==
    [ ticket             |-> evt.ticket,
      user_id            |-> evt.user_id,
      bot_id             |-> evt.bot_id,
      bot_name           |-> evt.bot_name,
      strategy           |-> evt.strategy,
      magic_number       |-> evt.magic_number,
      entry_time         |-> evt.entry_time,
      profit_loss        |-> << >>,
      change_percent     |-> << >>,
      max_risk_per_trade |-> evt.config_snapshot.max_risk_per_trade ]

\* Lines 440-441: db.session.add(rec); db.session.commit(); a commit the
\* unique constraint rejects stores nothing.
InsertSnapshot(cfgs, evt) ==
    IF InsertCommits(cfgs, evt.ticket, TradeConfigurationTicketUnique)
    THEN Append(cfgs, NewTradeConfiguration(evt))
    ELSE cfgs

\* store_trade_config_snapshot run without interruption.
store_trade_config_snapshot(cfgs, evt) ==
    IF CfgIndex(cfgs, evt.ticket) # 0 THEN cfgs
    ELSE InsertSnapshot(cfgs, evt)

\* The ticket the configuration calls are about.
ConfigTicket == 1

\* The owner a bot was started with.
OwnerUserId == 2

\* Events of bot "bot_1": its magic number is set once it has started, the
\* owner and the entry time are optional.
SnapshotEvts ==
    [ ticket : {ConfigTicket}, user_id : {0, OwnerUserId},
      bot_id : {"bot_1"}, bot_name : {None}, strategy : {"default"},
      magic_number : {<< >>, << MagicLow >>},
      entry_time : {None, "executed"},
      config_snapshot : [ max_risk_per_trade : {<< >>, << 2 >>} ] ]

\* Closed-trade dicts of the ticket, as the formatters build them for a
\* manual trade and for trades attributed to a bot.
ConfigTrades ==
    { trade \in
        [ ticket : {ConfigTicket}, type : {"BUY"}, entry_price : {BasePrice},
          exit_price : {BasePrice}, profit : {0 - 1, 2}, estimated : {FALSE},
          deal : {0}, bot_id : {None, "bot_1", "bot_2"},
          bot_name : {None, "Bot 1", "Bot 2"}, magic : {0, MagicLow},
          time : {"opened"}, change_percent : {0, 3} ] :
        /\ trade.bot_id = None <=> trade.bot_name = None
        /\ trade.bot_id = "bot_1" <=> trade.bot_name = "Bot 1" }

\* A whole store_trade_config_snapshot call that nothing interleaves with.
StoreTradeConfigSnapshotCall(evt) ==
    /\ \A c \in Callers : calls[c].pc = "idle"
    /\ trade_configurations' =
          store_trade_config_snapshot(trade_configurations, evt)
    /\ UNCHANGED << serverVars, users, trade_records, calls, ncalls,
                    terminalVars, monitorVars >>

\* Calls of both functions for one ticket, one after the other.
NextConfig ==
    \/ \E evt \in SnapshotEvts : StoreTradeConfigSnapshotCall(evt)
    \/ \E trade \in ConfigTrades : StoreTradeRecordCall(trade)

SpecConfig == InitStore /\ [][NextConfig]_vars

\* The columns of trade_configurations that hold the stored configuration,
\* and the NULL of each.
ConfigurationColumns ==
    { "user_id", "bot_id", "bot_name", "strategy", "magic_number",
      "entry_time", "max_risk_per_trade" }

NullOf(column) ==
    IF column = "user_id" THEN 0
    ELSE IF column \in {"magic_number", "max_risk_per_trade"} THEN << >>
    ELSE None

\* The step leaves every non-null configuration column of every row alone.
ConfigurationKept ==
    \A k \in 1..Len(trade_configurations) :
        \A column \in ConfigurationColumns :
            trade_configurations[k][column] # NullOf(column)
                => trade_configurations'[k][column]
                     = trade_configurations[k][column]

\* The step is a store_trade_record call whose outcome is now in the row.
OutcomeRefreshed ==
    \A trade \in ConfigTrades :
        StoreTradeRecordCall(trade)
            => LET k == CfgIndex(trade_configurations', trade.ticket) IN
               /\ k # 0
               /\ trade_configurations'[k].profit_loss = << trade.profit >>
               /\ trade_configurations'[k].change_percent
                    = << trade.change_percent >>

\* C21: over any sequence of store_trade_config_snapshot and
\* store_trade_record calls on one ticket, a configuration column that holds
\* a non-null value is never changed by a later call, and profit_loss and
\* change_percent are those of the latest store_trade_record call.
C21_StoredConfigurationNeverOverwritten ==
    [][ ConfigurationKept /\ OutcomeRefreshed ]_vars

\* C22: a store_trade_record call for a ticket that has a stored TradeRecord
\* changes no persisted state: neither trade_records nor
\* trade_configurations.
C22_StoredTicketIsNoOp ==
    [][ \A trade \in Payloads :
          ( /\ StoreTradeRecordCall(trade)
            /\ ExistingRecord(trade_records, trade.ticket) )
          => /\ trade_records' = trade_records
             /\ trade_configurations' = trade_configurations ]_vars

(***************************************************************************)
(* store_trade_config_snapshot, one database round trip per step, next to   *)
(* the steps of store_trade_record: the bot's callback and the trade        *)
(* monitor are separate tasks that yield at every database call.            *)
(***************************************************************************)

\* Lines 395-397: enter the function.
SnapshotBegin(c, evt) ==
    /\ calls[c].pc = "idle"
    /\ ncalls < MaxCalls
    /\ ncalls' = ncalls + 1
    /\ calls' = [ calls EXCEPT ![c] =
                    [ IdleCall EXCEPT !.pc = "snapshot_lookup", !.evt = evt ] ]
    /\ UNCHANGED << serverVars, users, trade_records, trade_configurations,
                    terminalVars, monitorVars >>

\* Lines 398-399: return when the ticket has a row.
SnapshotLookup(c) ==
    /\ calls[c].pc = "snapshot_lookup"
    /\ calls' = [ calls EXCEPT ![c] =
                    IF CfgIndex(trade_configurations, calls[c].evt.ticket) # 0
                    THEN IdleCall
                    ELSE [ calls[c] EXCEPT !.pc = "snapshot_insert" ] ]
    /\ UNCHANGED << serverVars, users, trade_records, trade_configurations,
                    ncalls, terminalVars, monitorVars >>

\* Lines 401-448: build the row, add and commit; a failing commit is caught
\* and rolled back.
SnapshotInsert(c) ==
    /\ calls[c].pc = "snapshot_insert"
    /\ trade_configurations' =
          InsertSnapshot(trade_configurations, calls[c].evt)
    /\ calls' = [ calls EXCEPT ![c] =
                    IF CommitRaises(trade_configurations,
                                    calls[c].evt.ticket, 0)
                    THEN StoreExceptClause ELSE IdleCall ]
    /\ UNCHANGED << serverVars, users, trade_records, ncalls, terminalVars,
                    monitorVars >>

\* The events and closed-trade dicts of the interleaved calls.
RaceEvts ==
    { evt \in SnapshotEvts :
        /\ evt.user_id = OwnerUserId
        /\ evt.magic_number = << MagicLow >>
        /\ evt.entry_time = None
        /\ evt.config_snapshot.max_risk_per_trade = << 2 >> }

RaceTrades ==
    { trade \in ConfigTrades :
        /\ trade.bot_id = "bot_1"
        /\ trade.magic = MagicLow
        /\ trade.change_percent = 3 }

\* Both functions called for one ticket by MaxCallers tasks against one
\* database, interleaved at the database round trips.
NextConfigRace ==
    \E c \in Callers :
        \/ \E evt \in RaceEvts : SnapshotBegin(c, evt)
        \/ SnapshotLookup(c)
        \/ SnapshotInsert(c)
        \/ \E trade \in RaceTrades : Begin(c, trade)
        \/ RecordLookup(c)
        \/ RecordInsert(c)
        \/ CfgLookup(c)
        \/ CfgCommit(c)

SpecConfigRace == InitStore /\ [][NextConfigRace]_vars

\* Rows of trade_configurations that carry the ticket.
ConfigurationsOf(ticket) ==
    { i \in 1..Len(trade_configurations) :
        trade_configurations[i].ticket = ticket }

\* A call ended in the except clause in this step.
CallCaught(c) == calls'[c].caught /\ ~ calls[c].caught

\* C26: an insert or commit that fails inside store_trade_record or
\* store_trade_config_snapshot never leaves the function as an exception,
\* and the failing step leaves the rows committed before it as they were.
C26_StoreFailureIsContained ==
    /\ [] (\A c \in Callers : calls[c].pc # "propagated")
    /\ [][ (\E c \in Callers : CallCaught(c))
             => /\ trade_records' = trade_records
                /\ trade_configurations' = trade_configurations ]_vars

\* C26 witness: with a user in the database, a call has ended in the except
\* clause (its commit was rejected) and the ticket's trade record, which was
\* committed before, is stored.
C26_Witness ==
    /\ users = 1
    /\ \E c \in Callers : calls[c].caught
    /\ RecordsOf(ConfigTicket) # {}

\* C27: when store_trade_config_snapshot and the upsert of store_trade_record
\* interleave their lookup and insert steps for one ticket,
\* trade_configurations holds at most one row of the ticket.
C27_OneConfigurationPerTicket ==
    \A t \in Tickets : Cardinality(ConfigurationsOf(t)) <= 1

\* C27 witness: a store_trade_record call looked the configuration up
\* before the snapshot's row was committed and inserted after it: the trade
\* record is stored, the call ended in the except clause, and the single
\* row is the snapshot's (it has no outcome).
C27_Witness ==
    /\ \A c \in Callers : calls[c].pc = "idle"
    /\ \E c \in Callers : calls[c].caught
    /\ RecordsOf(ConfigTicket) # {}
    /\ Cardinality(ConfigurationsOf(ConfigTicket)) = 1
    /\ \A i \in ConfigurationsOf(ConfigTicket) :
          /\ trade_configurations[i].profit_loss = << >>
          /\ trade_configurations[i].max_risk_per_trade = << 2 >>

(***************************************************************************)
(* The processed-deal set last_known_deals.                                 *)
(***************************************************************************)

\* Cycles in which the fetches of the two deal scans return None and the
\* later fetches of the same cycle succeed.
ScanFaultInputs ==
    { i \in SourceAnswers : i.poll_ok /\ ~ i.scan_ok /\ i.hist_ok }

\* The terminal and the monitor, with up to MaxFaults such cycles.
NextDeals ==
    \/ Next
    \/ \E i \in ScanFaultInputs : MonitorRun(i)

SpecDeals == StartWith(0) /\ [][NextDeals]_vars

\* The deals the position_closed events emitted in this step were built
\* from: every attribution of a closing deal emits one.
NewlyAttributedDeals ==
    { d \in 1..(2 * MaxTickets) :
        \E t \in Tickets :
            \E k \in (Len(emitted[t]) + 1)..Len(emitted'[t]) :
                emitted'[t][k].deal = d }

\* C23: every deal ticket attributed as the closing deal of a position is
\* in last_known_deals right after the attribution.
C23_AttributedDealIsProcessed ==
    [][ NewlyAttributedDeals \subseteq last_known_deals' ]_vars

(***************************************************************************)
(* The cleanup of last_known_deals, with check_for_new_deals driven         *)
(* directly by batches of new deals of positions the monitor does not       *)
(* track, and with the thresholds 1000 and 500 scaled down.                 *)
(***************************************************************************)
MaxDealTickets == 8   \* deal tickets 1..MaxDealTickets
MaxBatch       == 3   \* new deals in one fetch
SmallTrimAbove == 4   \* stands for DealsTrimAbove
SmallTrimTo    == 2   \* stands for DealsTrimTo

\* check_for_new_deals finds n new deals: lines 1013-1022 add their tickets,
\* lines 1065-1068 trim the set.
DealScan(n) ==
    /\ ghost.added + n <= MaxDealTickets
    /\ LET scanned == last_known_deals
                        \cup ((ghost.added + 1)..(ghost.added + n))
       IN  \E kept \in KeptDeals(scanned, SmallTrimTo) :
              last_known_deals' =
                  TrimmedTo(scanned, kept, SmallTrimAbove, SmallTrimTo)
    /\ ghost' = [ ghost EXCEPT !.added = @ + n ]
    /\ UNCHANGED << serverVars, storeVars, terminalVars,
                    last_known_positions, emitted >>

NextTrim == \E n \in 1..MaxBatch : DealScan(n)

SpecTrim == StartWith(0) /\ [][NextTrim]_vars

\* The `to` most recently added of the tickets of the set.
MostRecent(lkd, to) ==
    { d \in lkd : Cardinality({ e \in lkd : e > d }) < to }

\* C24: the set never holds more than the upper threshold after a scan, and
\* a scan that evicts leaves exactly the most recently added tickets: no
\* ticket is evicted before an older one.
C24_TrimKeepsMostRecent ==
    /\ [] (Cardinality(last_known_deals) <= SmallTrimAbove)
    /\ [][ (last_known_deals \ last_known_deals' # {})
             => last_known_deals'
                  = MostRecent(last_known_deals
                                 \cup ((ghost.added + 1)..ghost'.added),
                               SmallTrimTo) ]_vars

(***************************************************************************)
(* The branch of the price loop for a disconnected terminal (803-819),      *)
(* followed from one yield point to the next: the tasks are eventlet green  *)
(* threads, and a handler runs only while the loop stands in a sleep or in  *)
(* a socketio.emit.                                                         *)
(***************************************************************************)

\* Lines 642-808: gap ms after the last iteration the loop finds the
\* terminal disconnected and makes the iterator of client_timeframes.keys().
StatusStart(gap) ==
    /\ loop_pc.price = "cycle"
    /\ gap >= Horizon \/ feed.short < MaxShort
    /\ last_client_emission' = ElapseTo(last_client_emission, gap, Horizon)
    /\ last_emissions' = ElapseTo(last_emissions, gap, TimeframeUpdateInterval)
    /\ feed' = [ feed EXCEPT
                   !.short = IF gap < Horizon THEN @ + 1 ELSE @,
                   !.sent_at = ElapseTo(@, gap, Horizon),
                   !.status_at = ElapseTo(@, gap, Horizon) ]
    /\ loop_pc' = [ loop_pc EXCEPT
                      !.price = "status",
                      !.iter = [ used |-> Cardinality(DOMAIN client_timeframes),
                                 todo |-> Ascending(DOMAIN client_timeframes),
                                 yielded |-> FALSE ] ]
    /\ UNCHANGED << storeVars, terminalVars, monitorVars, client_timeframes,
                    last_processed_m1_candle_time,
                    last_sent_candle_by_timeframe, attribution, botVars >>

\* Lines 808-819, one pass of the for statement: the iterator raises
\* RuntimeError when the dict has another size than when it was made; at its
\* end the loop cleans up (834-836) and sleeps; else the next sid is sent a
\* connection_status when its last emission is 5 s old, and stamped.
StatusNext ==
    /\ loop_pc.price = "status"
    /\ LET it == loop_pc.iter IN
       IF Cardinality(DOMAIN client_timeframes) # it.used
       THEN /\ loop_pc' = [ loop_pc EXCEPT !.price = ExceptClause,
                                           !.iter = NoIter ]
            /\ UNCHANGED << last_client_emission, feed >>
       ELSE IF it.todo = << >>
       THEN /\ loop_pc' = [ loop_pc EXCEPT !.price = "cycle", !.iter = NoIter ]
            /\ last_client_emission' =
                  Restrict(last_client_emission, DOMAIN client_timeframes)
            /\ feed' = [ feed EXCEPT !.tick = ~ @ ]
       ELSE LET sid == Head(it.todo)
                due == StatusDue(last_client_emission, sid)
            IN  /\ loop_pc' = [ loop_pc EXCEPT
                                  !.iter = [ it EXCEPT !.todo = Tail(@),
                                                       !.yielded = due ] ]
                /\ last_client_emission' =
                      IF due THEN Stamp(last_client_emission, {sid})
                      ELSE last_client_emission
                /\ UNCHANGED feed
    /\ UNCHANGED << storeVars, terminalVars, monitorVars, client_timeframes,
                    last_processed_m1_candle_time,
                    last_sent_candle_by_timeframe, last_emissions,
                    attribution, botVars >>

\* The price loop stands at a yield point: in the sleep that ends an
\* iteration or the except clause, or in an emit of the branch.
AtYieldPoint ==
    \/ loop_pc.price \in {"cycle", "except"}
    \/ loop_pc.iter.yielded

\* The handlers, run by the hub while the loop yields.
ConnectAtYield(sid, tf) == AtYieldPoint /\ HandleConnect(sid, tf)

SetTimeframeAtYield(sid, tf) == AtYieldPoint /\ HandleSetTimeframe(sid, tf)

DisconnectAtYield(sid) == AtYieldPoint /\ HandleDisconnect(sid)

NextStatus ==
    \/ \E sid \in Clients, tf \in Subscribable : ConnectAtYield(sid, tf)
    \/ \E sid \in Clients, tf \in Subscribable : SetTimeframeAtYield(sid, tf)
    \/ \E sid \in Clients : DisconnectAtYield(sid)
    \/ \E gap \in {ShortGap, LongGap, Horizon} : StatusStart(gap)
    \/ StatusNext
    \/ PriceExcept

SpecStatus == StartWith(0) /\ [][NextStatus]_vars

\* C25: while the price loop is in the middle of iterating over
\* client_timeframes, no step (of a connect, disconnect or set_timeframe
\* handler) changes client_timeframes: the iteration completes between
\* yield points.
C25_NoMutationDuringIteration ==
    [][ loop_pc.price = "status"
          => client_timeframes' = client_timeframes ]_vars

(***************************************************************************)
(* The for statement over the derived timeframes (721-793) with two         *)
(* clients, so that two timeframes have a subscriber in one iteration, and  *)
(* with an answer of the source per timeframe.                              *)
(***************************************************************************)
SweepClients == 2   \* socket ids 1..SweepClients

SweepSids == 1..SweepClients

\* The timeframes the clients of this specification ask for.
SweepTimeframes == {"5m", "1h"}

\* The server has started and no client has connected yet.
SweepStart ==
    /\ users = 1
    /\ trade_records = << >>
    /\ trade_configurations = << >>
    /\ calls = [ c \in Callers |-> IdleCall ]
    /\ ncalls = 0
    /\ positions = << >>
    /\ opened = {}
    /\ deals = << >>
    /\ last_known_positions = << >>
    /\ last_known_deals = {}
    /\ emitted = [ t \in Tickets |-> << >> ]
    /\ ghost = NoHistory
    /\ client_timeframes = << >>
    /\ last_processed_m1_candle_time = 0
    /\ last_sent_candle_by_timeframe = << >>
    /\ last_client_emission = << >>
    /\ last_emissions = << >>
    /\ feed = [ NoFeed EXCEPT !.sids = [ sid \in SweepSids |-> "new" ] ]
    /\ loop_pc = LoopsStart
    /\ attribution = NoAttribution
    /\ InitBots

\* Iterations a long time apart that get a 1m bar of the minute that starts
\* at 60 from a connected terminal.
SweepInputs ==
    { inp \in CandleInputs :
        /\ inp.bar # << >> /\ inp.bar[1].time = 60
        /\ inp.tf_bar = << >> }

\* What the source does per derived timeframe in one iteration.
SweepAnswers ==
    { a \in [ DerivedTimeframes -> PollAnswers ] :
        \A tf \in DerivedTimeframes \ SweepTimeframes :
           a[tf] = [ raises |-> FALSE, rates |-> << >> ] }

\* Lines 642-838 with the answers of the source to the polls of 721-793.
SweepIteration(inp, answers) ==
    IterationOf(inp, PriceCycleOf(inp, answers))

NextSweep ==
    \/ \E sid \in SweepSids, tf \in SweepTimeframes : HandleConnect(sid, tf)
    \/ \E inp \in SweepInputs, answers \in SweepAnswers :
          SweepIteration(inp, answers)

SpecSweep == SweepStart /\ [][NextSweep]_vars

\* The poll of a timeframe returned nothing or raised.
PollFailed(answer) ==
    answer.raises \/ format_candle(answer.rates) = << >>

\* The entry of tf in last_sent_candle_by_timeframe is the same before and
\* after the step.
EntryUnchanged(tf) ==
    IF tf \in DOMAIN last_sent_candle_by_timeframe
    THEN /\ tf \in DOMAIN last_sent_candle_by_timeframe'
         /\ last_sent_candle_by_timeframe'[tf]
              = last_sent_candle_by_timeframe[tf]
    ELSE tf \notin DOMAIN last_sent_candle_by_timeframe'

\* The step has processed tf with the candle the source returned: when the
\* candle is of a new period or differs from the one last sent, it is stored
\* and goes to the subscribers of tf.
Processed(tf, m1_time, answer) ==
    /\ tf \in feed'.polled
    /\ DerivedDue(last_sent_candle_by_timeframe, tf,
                  getCandleStartTime(m1_time, tf), PolledCandle(answer))
         => /\ tf \in DOMAIN last_sent_candle_by_timeframe'
            /\ last_sent_candle_by_timeframe'[tf]
                 = Tag(PolledCandle(answer)[1], tf)
            /\ \A sid \in tf_clients(client_timeframes, tf) :
                  << sid, tf >> \in feed'.sends

\* C28: in an iteration that works through the derived timeframes, a
\* timeframe with a subscriber whose poll returns nothing or raises keeps
\* its entry in last_sent_candle_by_timeframe and gets no price_update,
\* and every other derived timeframe with a subscriber is still polled and
\* processed in that iteration.
C28_FailedPollSkipsOnlyItsTimeframe ==
    [][ \A inp \in SweepInputs, answers \in SweepAnswers :
          ( /\ feed'.tick # feed.tick
            /\ feed'.recorded
            /\ inp.bar = feed'.bar
            /\ SweepIteration(inp, answers) )
            => \A tf \in DerivedTimeframes :
                  PollsTimeframe(client_timeframes, tf)
                    /\ PollFailed(answers[tf])
                    => /\ EntryUnchanged(tf)
                       /\ \A sid \in SweepSids :
                             << sid, tf >> \notin feed'.sends
                       /\ \A other \in DerivedTimeframes \ {tf} :
                             PollsTimeframe(client_timeframes, other)
                               => Processed(other, inp.bar[1].time,
                                            answers[other]) ]_vars

\* The latest iteration polled 5m, the first timeframe of the for
\* statement, and got no candle of it (5m has never been sent), and it
\* stored the candle of 1h and sent it to the subscriber of 1h.
C28_Witness ==
    /\ {"5m", "1h"} \subseteq feed.polled
    /\ "5m" \notin DOMAIN last_sent_candle_by_timeframe
    /\ "1h" \in DOMAIN last_sent_candle_by_timeframe
    /\ \E sid \in SweepSids : << sid, "1h" >> \in feed.sends

\* The latest iteration polled tf and got no candle: tf has a poll behind it
\* and still no entry in last_sent_candle_by_timeframe, which every poll of
\* a timeframe without entry that returns a candle writes (line 742).
FailedLastCycle(tf) ==
    /\ tf \in feed.polled
    /\ tf \notin DOMAIN last_sent_candle_by_timeframe

\* C29: a derived timeframe whose poll failed in one iteration of the price
\* loop and that still has a subscriber is polled again in the very next
\* iteration, also when the terminal returns the same 1m bar as in the
\* iteration before.
C29_FailedPollRetriedNextCycle ==
    [][ \A tf \in DerivedTimeframes :
          ( /\ IterationStep
            /\ FailedLastCycle(tf)
            /\ PollsTimeframe(client_timeframes, tf)
            /\ feed'.bar = feed.bar )
            => tf \in feed'.polled ]_vars

(***************************************************************************)
(* The price loop while the terminal comes and goes: iterations any time    *)
(* apart that find it connected or not, with socketio.emit working or       *)
(* raising.                                                                 *)
(***************************************************************************)
\* Iterations that poll 1m bars of one period start and no derived candle.
NoticeInputs ==
    { inp \in PriceInputs :
        /\ inp.tf_bar = << >>
        /\ \A i \in 1..Len(inp.bar) : inp.bar[i].time = 60 }

NextNotice ==
    \/ \E sid \in Clients, tf \in Subscribable : HandleConnect(sid, tf)
    \/ \E sid \in Clients : HandleDisconnect(sid)
    \/ \E inp \in NoticeInputs : PriceIteration(inp)
    \/ PriceExcept

\* The loop takes its next step as long as it has one.
NoticeFairness ==
    /\ WF_vars(\E inp \in NoticeInputs : PriceIteration(inp))
    /\ WF_vars(PriceExcept)

SpecNotice == StartWith(0) /\ [][NextNotice]_vars /\ NoticeFairness

\* The step is an iteration that sends connection_status to sid.
NoticeTo(sid) ==
    /\ IterationStep
    /\ sid \in DOMAIN feed'.status_at
    /\ feed'.status_at[sid] = 0

\* d ms from now every emission the loop has sent to sid so far, of either
\* event, is at least 5 s old.
IdleFor(sid, d) ==
    /\ Age(feed.status_at, sid, Horizon) + d >= StatusInterval
    /\ \A tf \in Timeframes :
          Age(feed.sent_at, << sid, tf >>, Horizon) + d >= StatusInterval

NewThread == [ alive |-> TRUE, run |-> 0 ]

\* start_bot (75-131): refused while the bot runs or when mt5.initialize
\* fails; else the flag is set, the magic number generated and a new thread
\* started.
start_bot(m, bot_id, init_ok, second) ==
    IF m.is_running \/ ~ init_ok
    THEN [ m |-> m, success |-> FALSE ]
    ELSE [ m |-> [ m EXCEPT
                     !.is_running = TRUE,
                     !.bot_id = bot_id,
                     !.unique_magic_number =
                        << _generate_unique_magic_number(bot_id, second) >>,
                     !.starts = @ + 1,
                     !.threads = Append(@, NewThread),
                     !.bot_thread = Len(m.threads) + 1 ],
           success |-> TRUE ]

\* Line 142: self.bot_thread and self.bot_thread.is_alive().
Joins(m) == m.bot_thread # 0 /\ m.threads[m.bot_thread].alive

\* stop_bot up to the join (133-143).
StopFlag(m) == [ m EXCEPT !.is_running = FALSE ]

\* _bot_loop (155-226), one pass of `while self.is_running` by thread t of
\* object obj: an iteration with its sleep, or the end of the thread.
BotLoopStep(obj, t) ==
    /\ bot_objects[obj].threads[t].alive
    /\ bot_objects' =
          [ bot_objects EXCEPT ![obj].threads[t] =
              IF bot_objects[obj].is_running
              THEN [ @ EXCEPT !.run = bot_objects[obj].starts ]
              ELSE [ @ EXCEPT !.alive = FALSE ] ]
    /\ UNCHANGED << storeVars, terminalVars, monitorVars, priceVars, loop_pc,
                    bot_trades,
                    attribution, bot_managers, bot_calls >>

\* time.time() reaches the next second.
ClockTick ==
    /\ bot_calls.second < StartSecond + MaxSeconds
    /\ bot_calls' = [ bot_calls EXCEPT !.second = @ + 1 ]
    /\ UNCHANGED << storeVars, terminalVars, monitorVars, priceVars, loop_pc,
                    bot_trades,
                    attribution, bot_managers, bot_objects >>

\* Lines 3603-3618 of handle_bot_start: a new TradingBotManager is made,
\* put into the registry under bot_id and started.
RegisterAndStart(ms, bot_id, init_ok, second) ==
    Append(ms, start_bot(NewManager, bot_id, init_ok, second).m)

\* handle_bot_start (3586-3633) up to its first yield point: the join of
\* stop_bot on the bot registered under bot_id, when that bot runs and
\* its thread is alive; without one the handler runs to its end.
BotStartBegin(c, bot_id, init_ok) ==
    /\ bot_calls.calls[c].pc = "idle"
    /\ Len(bot_objects) < MaxManagers
    /\ LET old == IF bot_id \in DOMAIN bot_managers
                  THEN bot_managers[bot_id] ELSE 0
           stops == old # 0 /\ bot_objects[old].is_running
           ms == IF stops THEN [ bot_objects EXCEPT ![old] = StopFlag(@) ]
                 ELSE bot_objects
       IN  IF stops /\ Joins(bot_objects[old])
           THEN /\ bot_objects' = ms
                /\ bot_calls' = [ bot_calls EXCEPT !.calls[c] =
                                    [ pc |-> "start_join", bot_id |-> bot_id,
                                      obj |-> old ] ]
                /\ UNCHANGED bot_managers
           ELSE /\ bot_objects' = RegisterAndStart(ms, bot_id, init_ok,
                                                bot_calls.second)
                /\ bot_managers' = With(bot_managers, bot_id, Len(ms) + 1)
                /\ UNCHANGED bot_calls
    /\ UNCHANGED << storeVars, terminalVars, monitorVars, priceVars, loop_pc,
                    bot_trades,
                    attribution >>

\* handle_bot_start from the return of the join (the thread has ended, or
\* 5 s have passed) to its end.
BotStartResume(c, init_ok) ==
    /\ bot_calls.calls[c].pc = "start_join"
    /\ bot_objects' = RegisterAndStart(bot_objects, bot_calls.calls[c].bot_id,
                                    init_ok, bot_calls.second)
    /\ bot_managers' = With(bot_managers, bot_calls.calls[c].bot_id,
                            Len(bot_objects) + 1)
    /\ bot_calls' = [ bot_calls EXCEPT !.calls[c] = IdleBotCall ]
    /\ UNCHANGED << storeVars, terminalVars, monitorVars, priceVars, loop_pc,
                    bot_trades,
                    attribution >>

\* The stopped bot stays in the registry.
NotRemoved(registry, bot_id) == registry

\* Lines 3651-3652: `del bot_managers[bot_id]` after a successful stop.
Removed(registry, bot_id) == Without(registry, bot_id)

\* handle_bot_stop (3635-3666) for a registered bot that runs, up to its
\* first yield point, the join of stop_bot; without a live thread the
\* handler runs to its end and removes the bot (3651-3652).  For a bot id
\* that is not registered (ValueError, 3644) and for a bot that does not
\* run (success False) the handler changes nothing.
BotStopBegin(c, bot_id) ==
    /\ bot_calls.calls[c].pc = "idle"
    /\ bot_id \in DOMAIN bot_managers
    /\ bot_objects[bot_managers[bot_id]].is_running
    /\ LET obj == bot_managers[bot_id] IN
       /\ bot_objects' = [ bot_objects EXCEPT ![obj] = StopFlag(@) ]
       /\ IF Joins(bot_objects[obj])
          THEN /\ bot_calls' = [ bot_calls EXCEPT !.calls[c] =
                                   [ pc |-> "stop_join", bot_id |-> bot_id,
                                     obj |-> obj ] ]
               /\ UNCHANGED bot_managers
          ELSE /\ bot_managers' = Removed(bot_managers, bot_id)
               /\ UNCHANGED bot_calls
    /\ UNCHANGED << storeVars, terminalVars, monitorVars, priceVars, loop_pc,
                    bot_trades,
                    attribution >>

\* handle_bot_stop from the return of the join to its end: line 3652
\* deletes the entry of bot_id, whichever object it holds by now; when
\* there is none the KeyError ends in the except clause of line 3661.
BotStopResume(c) ==
    /\ bot_calls.calls[c].pc = "stop_join"
    /\ bot_managers' = Removed(bot_managers, bot_calls.calls[c].bot_id)
    /\ bot_calls' = [ bot_calls EXCEPT !.calls[c] = IdleBotCall ]
    /\ UNCHANGED << storeVars, terminalVars, monitorVars, priceVars, loop_pc,
                    bot_trades,
                    attribution, bot_objects >>

\* A thread of some TradingBotManager object takes its next pass.
SomeBotLoopStep ==
    \E obj \in 1..Len(bot_objects) :
       \E t \in 1..Len(bot_objects[obj].threads) : BotLoopStep(obj, t)

NextBots ==
    \/ \E c \in BotCallers, bot_id \in BotIds, init_ok \in BOOLEAN :
          BotStartBegin(c, bot_id, init_ok)
    \/ \E c \in BotCallers, init_ok \in BOOLEAN : BotStartResume(c, init_ok)
    \/ \E c \in BotCallers, bot_id \in BotIds : BotStopBegin(c, bot_id)
    \/ \E c \in BotCallers : BotStopResume(c)
    \/ SomeBotLoopStep
    \/ ClockTick

SpecBots == StartWith(0) /\ [][NextBots]_vars

\* The objects in the registry.
Registered == { bot_managers[b] : b \in DOMAIN bot_managers }

\* A stop_bot call on object obj stands in its join.
Stopping(obj) ==
    \E c \in BotCallers :
       /\ bot_calls.calls[c].pc \in {"start_join", "stop_join"}
       /\ bot_calls.calls[c].obj = obj

C32_RunningMagicsDistinct ==
    \A a, b \in Registered :
       ( /\ a # b
         /\ bot_objects[a].is_running
         /\ bot_objects[b].is_running )
         => bot_objects[a].unique_magic_number
              # bot_objects[b].unique_magic_number

(***************************************************************************)
(* _generate_unique_magic_number as a function of the first 32 bits of the  *)
(* digest, and the attribution of a deal that carries the number.           *)
(***************************************************************************)
MagicCommentLen == 3   \* atoms of the comment of the deal

\* The 32 bits of the digest, << high half, low half >>: the values around
\* 0, 65999 / 66000, 2^31 - 1 and 2^32 - 1, and a digest of the table.
DigestPrefixes ==
    {0, 1, 32767, 32768, 39621, 65535}
      \X {0, 463, 464, 49283, 65534, 65535}

\* No magic number generated yet; the deal to attribute has any short
\* comment and the registry any content.
InitMagic ==
    /\ InitAttribution
    /\ attribution.magic_number = OtherMagic
    /\ Len(attribution.comment) <= MagicCommentLen

\* start_bot on the module's bot_manager, line 94, the digest being
\* prefix; an order of the bot carries the number, and so does its deal.
MagicFromDigest(prefix) ==
    /\ bot_objects[1].unique_magic_number = << >>
    /\ ~ attribution.called
    /\ bot_objects' = [ bot_objects EXCEPT ![1].unique_magic_number =
                                              << MagicOf(prefix) >> ]
    /\ attribution' = [ attribution EXCEPT
                          !.magic_number = MagicOf(prefix) ]
    /\ UNCHANGED << storeVars, terminalVars, monitorVars, priceVars, loop_pc,
                    bot_trades,
                    bot_managers, bot_calls >>

NextMagic ==
    \/ \E prefix \in DigestPrefixes : MagicFromDigest(prefix)
    \/ DetermineBotAttribution

SpecMagic == InitMagic /\ [][NextMagic]_vars

\* The deal attributed carries the magic number generated for the bot.
BotDeal ==
    bot_objects[1].unique_magic_number = << attribution.magic_number >>

\* C40: the number _generate_unique_magic_number returns lies in
\* [234000, 299999], inside the range [234000, 300000] of
\* _determine_bot_attribution, and a deal that carries it is attributed to
\* some bot, never to None, whatever its comment and the registry.
C40_GeneratedMagicInReservedRange ==
    /\ \A m \in { bot_objects[1].unique_magic_number[i] :
                     i \in 1..Len(bot_objects[1].unique_magic_number) } :
          /\ MagicBase <= m /\ m <= MagicBase + MagicSpan - 1
          /\ MagicLow <= m /\ m <= MagicHigh
    /\ attribution.called /\ BotDeal => attribution.result # << >>

\* The digest ffffffff gave 234001, and the deal that carries it, with an
\* empty comment and an empty registry, is attributed to the unknown bot.
C40_Witness ==
    /\ bot_objects[1].unique_magic_number = << MagicBase + 1 >>
    /\ attribution.called /\ BotDeal
    /\ attribution.comment = << >>
    /\ attribution.bot_managers = << >>
    /\ attribution.result # << >>

(***************************************************************************)
(* start_bot and stop_bot called on one object again and again: the routes  *)
(* /bot/start and /bot/stop on the module's bot_manager (candlestickData.py *)
(* 3483-3531).                                                              *)
(***************************************************************************)
MaxStarts == 2   \* successful start_bot calls on the object

\* Route /bot/start: bot_manager.start_bot(strategy), bot_id being None.
ApiStart(init_ok) ==
    /\ bot_objects[1].starts < MaxStarts
    /\ bot_objects' = [ bot_objects EXCEPT ![1] =
                          start_bot(@, None, init_ok, bot_calls.second).m ]
    /\ UNCHANGED << storeVars, terminalVars, monitorVars, priceVars, loop_pc,
                    bot_trades,
                    attribution, bot_managers, bot_calls >>

\* Route /bot/stop up to the join of stop_bot (bot_manager.py 133-143);
\* without a live thread stop_bot returns at once.
ApiStopBegin(c) ==
    /\ bot_calls.calls[c].pc = "idle"
    /\ bot_objects[1].is_running
    /\ bot_objects' = [ bot_objects EXCEPT ![1] = StopFlag(@) ]
    /\ bot_calls' =
          IF Joins(bot_objects[1])
          THEN [ bot_calls EXCEPT !.calls[c] =
                   [ pc |-> "api_join", bot_id |-> None, obj |-> 1 ] ]
          ELSE bot_calls
    /\ UNCHANGED << storeVars, terminalVars, monitorVars, priceVars, loop_pc,
                    bot_trades,
                    attribution, bot_managers >>

\* The join returns: the thread has ended, or 5 s have passed and it is
\* still alive (143); stop_bot notifies and returns True.
ApiStopResume(c) ==
    /\ bot_calls.calls[c].pc = "api_join"
    /\ bot_calls' = [ bot_calls EXCEPT !.calls[c] = IdleBotCall ]
    /\ UNCHANGED << storeVars, terminalVars, monitorVars, priceVars, loop_pc,
                    bot_trades,
                    attribution, bot_managers, bot_objects >>

NextBotThreads ==
    \/ \E init_ok \in BOOLEAN : ApiStart(init_ok)
    \/ \E c \in BotCallers : ApiStopBegin(c)
    \/ \E c \in BotCallers : ApiStopResume(c)
    \/ SomeBotLoopStep
    \/ ClockTick

SpecBotThreads == StartWith(0) /\ [][NextBotThreads]_vars

\* The threads of object obj that are alive and have executed an iteration
\* of _bot_loop since the latest start_bot.
Looping(obj) ==
    { t \in 1..Len(bot_objects[obj].threads) :
        /\ bot_objects[obj].threads[t].alive
        /\ bot_objects[obj].starts > 0
        /\ bot_objects[obj].threads[t].run = bot_objects[obj].starts }

\* C38: whatever start_bot and stop_bot calls were made on a
\* TradingBotManager, at most one _bot_loop thread executes iterations for
\* it.
C38_OneLoopPerManager ==
    \A obj \in 1..Len(bot_objects) : Cardinality(Looping(obj)) <= 1

(***************************************************************************)
(* _update_performance, _detect_completed_trades and                        *)
(* _track_completed_trade of the module's bot_manager (bot_manager.py       *)
(* 489-571, 936-1027).                                                      *)
(***************************************************************************)
MaxBotDeals == 53   \* deals of the bot in the terminal's history
VariedDeals == 1    \* the first deals take any profit, later ones win
HistoryLimit == 50  \* entries kept in completed_trade_history
DealProfits == { -1, 0, 1 }

\* The terminal records a BUY or SELL deal that carries the bot's magic
\* number, with net profit `profit` (profit + commission + swap, 540-543).
BotDealRecorded(profit) ==
    /\ bot_objects[1].unique_magic_number # << >>
    /\ Len(bot_trades.history) < MaxBotDeals
    /\ Len(bot_trades.history) >= VariedDeals => profit = 1
    /\ bot_trades' =
          [ bot_trades EXCEPT !.history =
              Append(@, [ ticket |-> Len(@) + 1, profit |-> profit ]) ]
    /\ UNCHANGED << storeVars, terminalVars, monitorVars, priceVars, loop_pc,
                    attribution, bot_managers, bot_objects, bot_calls >>

\* Line 968: the list as it is, or its last 50 entries.
KeepLast(history) ==
    IF Len(history) > HistoryLimit
    THEN SubSeq(history, Len(history) - HistoryLimit + 1, Len(history))
    ELSE history

\* _track_completed_trade (936-1002) on lifetime_stats ls.
_track_completed_trade(ls, trade) ==
    [ total_completed_trades |-> ls.total_completed_trades + 1,
      lifetime_realized_profit |-> ls.lifetime_realized_profit + trade.profit,
      total_winning_trades |->
         ls.total_winning_trades + (IF trade.profit > 0 THEN 1 ELSE 0),
      total_losing_trades |->
         ls.total_losing_trades + (IF trade.profit < 0 THEN 1 ELSE 0),
      completed_trade_history |->
         KeepLast(Append(ls.completed_trade_history, trade)) ]

\* Line 1013: no entry of completed_trade_history has the trade's ticket.
NotTracked(ls, trade) ==
    \A i \in 1..Len(ls.completed_trade_history) :
       ls.completed_trade_history[i].ticket # trade.ticket

\* Lines 1012-1013: trade i of the fetched list has a profit and no entry of
\* the history carries its ticket.
Completed(bt, i) ==
    /\ bt.history[i].profit # 0
    /\ NotTracked(bt.lifetime_stats, bt.history[i])

\* The loop of _detect_completed_trades (1004-1027) from trade i of the
\* fetched list on, up to the notify_updates (1019) of the first trade it
\* tracks, where bot_update_callback emits (candlestickData.py 3458) and
\* other tasks run; or up to the end of the list.
DetectFrom(bt, fetched, i) ==
    LET found == { j \in i..fetched : Completed(bt, j) }
    IN  IF found = {}
        THEN [ bt EXCEPT !.run = IdleRun ]
        ELSE LET trade == bt.history[Min(found)]
             IN  [ bt EXCEPT
                     !.lifetime_stats = _track_completed_trade(@, trade),
                     !.tracked = Append(@, trade.ticket),
                     !.run = [ active |-> TRUE, fetched |-> fetched,
                               next |-> Min(found) + 1 ] ]

\* _update_performance up to the first notify_updates: nothing is done
\* before start_bot has set the magic number and bot_start_time (493); else
\* every deal since bot_start_time is fetched (519) and handed to
\* _detect_completed_trades (571).
_update_performance ==
    /\ bot_objects[1].unique_magic_number # << >>
    /\ ~ bot_trades.run.active
    /\ bot_trades.lifetime_stats.total_completed_trades <= MaxBotDeals
    /\ bot_trades' = DetectFrom(bot_trades, Len(bot_trades.history), 1)
    /\ UNCHANGED << storeVars, terminalVars, monitorVars, priceVars, loop_pc,
                    attribution, bot_managers, bot_objects, bot_calls >>

\* The emit has returned: the loop goes on with the next trade of the list.
_detect_completed_trades ==
    /\ bot_trades.run.active
    /\ bot_trades' = DetectFrom(bot_trades, bot_trades.run.fetched,
                                bot_trades.run.next)
    /\ UNCHANGED << storeVars, terminalVars, monitorVars, priceVars, loop_pc,
                    attribution, bot_managers, bot_objects, bot_calls >>

NextPerformance ==
    \/ \E init_ok \in BOOLEAN : ApiStart(init_ok)
    \/ \E profit \in DealProfits : BotDealRecorded(profit)
    \/ _update_performance
    \/ _detect_completed_trades

SpecPerformance == StartWith(0) /\ [][NextPerformance]_vars

\* C39: no deal of the bot has gone through _track_completed_trade more
\* than once, so that lifetime_stats counts each completed deal at most
\* once, also after completed_trade_history was cut to its last 50 entries.
C39_EachDealCountedOnce ==
    \A i, j \in 1..Len(bot_trades.tracked) :
       i # j => bot_trades.tracked[i] # bot_trades.tracked[j]

(***************************************************************************)
(* Clients that name any timeframe string in connect, set_timeframe and     *)
(* request_update (candlestickData.py 3216-3255, 3381-3385).                *)
(***************************************************************************)
\* The strings the clients send: a key of timeframes_mt5_constants and a
\* string that is no key.
Requested == {"1m", "2h"}

NextRequests ==
    \/ \E sid \in Clients, tf \in Requested : HandleConnect(sid, tf)
    \/ \E sid \in Clients, tf \in Requested : HandleSetTimeframe(sid, tf)
    \/ \E sid \in Clients, tf \in Requested : HandleRequestUpdate(sid, tf)
    \/ \E sid \in Clients : HandleDisconnect(sid)
    \/ \E inp \in ThrottleInputs : PriceIteration(inp)

SpecRequests == StartWith(0) /\ [][NextRequests]_vars

\* C36: every value stored in client_timeframes is one of the supported
\* timeframes 1m, 5m, 1h, 4h, 1d, 1w.
C36_StoredTimeframesSupported ==
    \A sid \in DOMAIN client_timeframes :
       client_timeframes[sid] \in Timeframes

(***************************************************************************)
(* The start of the background tasks in handle_connect (candlestickData.py  *)
(* 3395-3413), statement by statement.                                      *)
(***************************************************************************)
\* The two handles, in the order handle_connect looks at them.
TaskHandles == << "thread", "trade_monitor_thread" >>

\* thread_lock is held by some handler.
NeverHeld(tasks) == FALSE

Held(tasks) == tasks.thread_lock # 0

\* Line 3397: the handler enters `with thread_lock` once the lock is free.
ConnectAcquire(sid) ==
    /\ sid \in DOMAIN loop_pc.tasks.connects
    /\ loop_pc.tasks.connects[sid] = "with"
    /\ ~ Held(loop_pc.tasks)
    /\ loop_pc' = [ loop_pc EXCEPT !.tasks.thread_lock = sid,
                                   !.tasks.connects[sid] = "test_1" ]
    /\ UNCHANGED << storeVars, terminalVars, monitorVars, priceVars,
                    attribution, botVars >>

\* Lines 3398 and 3407: `if <handle> is None`, for handle i of TaskHandles;
\* after the second handle the with block ends and the handler returns.
AfterHandle(i) == IF i = 1 THEN "test_2" ELSE "exit"

ConnectTest(sid, i) ==
    /\ sid \in DOMAIN loop_pc.tasks.connects
    /\ loop_pc.tasks.connects[sid] = IF i = 1 THEN "test_1" ELSE "test_2"
    /\ loop_pc' = [ loop_pc EXCEPT !.tasks.connects[sid] =
                      IF loop_pc.tasks[TaskHandles[i]] = None
                      THEN IF i = 1 THEN "start_1" ELSE "start_2"
                      ELSE AfterHandle(i) ]
    /\ UNCHANGED << storeVars, terminalVars, monitorVars, priceVars,
                    attribution, botVars >>

\* Lines 3400 and 3409: socketio.start_background_task starts the task and
\* its handle is stored; started counts the tasks, from 2 on as 2.
ConnectStart(sid, i) ==
    /\ sid \in DOMAIN loop_pc.tasks.connects
    /\ loop_pc.tasks.connects[sid] = IF i = 1 THEN "start_1" ELSE "start_2"
    /\ loop_pc' = [ loop_pc EXCEPT
                      !.tasks[TaskHandles[i]] = "task",
                      !.tasks.started[TaskHandles[i]] = IF @ < 2 THEN @ + 1 ELSE @,
                      !.tasks.connects[sid] = AfterHandle(i) ]
    /\ UNCHANGED << storeVars, terminalVars, monitorVars, priceVars,
                    attribution, botVars >>

\* The with block is left: the lock is released if this handler holds it.
ConnectRelease(sid) ==
    /\ sid \in DOMAIN loop_pc.tasks.connects
    /\ loop_pc.tasks.connects[sid] = "exit"
    /\ loop_pc' = [ loop_pc EXCEPT
                      !.tasks.thread_lock = IF @ = sid THEN 0 ELSE @,
                      !.tasks.connects[sid] = "returned" ]
    /\ UNCHANGED << storeVars, terminalVars, monitorVars, priceVars,
                    attribution, botVars >>

NextTasks ==
    \/ \E sid \in SweepSids, tf \in Subscribable : HandleConnect(sid, tf)
    \/ \E sid \in SweepSids : ConnectAcquire(sid)
    \/ \E sid \in SweepSids, i \in DOMAIN TaskHandles : ConnectTest(sid, i)
    \/ \E sid \in SweepSids, i \in DOMAIN TaskHandles : ConnectStart(sid, i)
    \/ \E sid \in SweepSids : ConnectRelease(sid)
    \/ \E sid \in SweepSids : HandleDisconnect(sid)

SpecTasks == SweepStart /\ [][NextTasks]_vars

\* C37: whatever the number and the interleaving of the connect events, at
\* most one background_price_updater task and at most one
\* background_trade_monitor task have been started.
C37_OneTaskOfEachKind ==
    /\ loop_pc.tasks.started.thread <= 1
    /\ loop_pc.tasks.started.trade_monitor_thread <= 1

\* Every client has connected and its handle_connect has returned; one task
\* of each kind runs.
C37_Witness ==
    /\ \A sid \in SweepSids :
          /\ sid \in DOMAIN loop_pc.tasks.connects
          /\ loop_pc.tasks.connects[sid] = "returned"
    /\ loop_pc.tasks.started.thread = 1
    /\ loop_pc.tasks.started.trade_monitor_thread = 1

(***************************************************************************)
(* Further properties of the trade monitor.                                 *)
(***************************************************************************)
\* C33: a cycle emits position_closed for a ticket, or persists a trade
\* record for it, only if the ticket is absent from the snapshot of open
\* positions the cycle polled (the snapshot is the baseline the cycle
\* leaves, line 990).
C33_CloseOnlyWhenAbsentFromSnapshot ==
    [][ \A t \in Tickets :
          ( \/ \E k \in (Len(emitted[t]) + 1)..Len(emitted'[t]) :
                  emitted'[t][k].type = "position_closed"
            \/ \E k \in (Len(trade_records) + 1)..Len(trade_records') :
                  trade_records'[k].ticket = t )
          => t \notin DOMAIN last_known_positions' ]_vars

\* The position_opened events logged for the ticket.
OpenedEvents(t) ==
    { k \in 1..Len(emitted[t]) : emitted[t][k].type = "position_opened" }

\* C34: position_opened is emitted at most once per ticket over the whole
\* run.
C34_OpenedAtMostOnce ==
    \A t \in Tickets : Cardinality(OpenedEvents(t)) <= 1

(***************************************************************************)
(* A further property of store_trade_record.                                *)
(***************************************************************************)
\* C35: for every ticket that has a row in trade_records and a row in
\* trade_configurations, the configuration row caches the outcome of the
\* trade record: its profit_loss is the record's profit_loss.
C35_OutcomeFieldsAgree ==
    \A i \in 1..Len(trade_records) :
       \A k \in 1..Len(trade_configurations) :
          trade_configurations[k].ticket = trade_records[i].ticket
          => trade_configurations[k].profit_loss
               = << trade_records[i].profit_loss >>

====
